---- MODULE Spec2Model ----
(***************************************************************************)
(* EasyPAML: the CODEML batch engine (src/backend/codeml_backend.py) and   *)
(* the GUI handlers that signal it (src/gui/main_gui.py).                  *)
(*                                                                         *)
(* Spec       the orchestrator thread of run_batch_analysis, the external  *)
(*            process of one run, its two stream-reader threads and the    *)
(*            caller's pause / continue / stop handlers, interleaved.      *)
(* SpecBatch  the gene x model loop with each run reduced to its return    *)
(*            value, followed by the LRT report.                           *)
(***************************************************************************)
EXTENDS Integers, Sequences, FiniteSets, TLC

\* ------------------------------------------------------------------ bounds
NumGenes == 2        \* number of *.fas files found in the input folder
MaxPrompts == 1      \* prompt lines one child process emits during a run
NumBatchGenes == 2   \* genes of the batch in SpecBatch
MaxSelection == 3    \* length of the model selection handed to auto-completion
MaxLineLen == 3      \* pieces of text one streamed line is made of
NumRegenGenes == 2   \* output files per model folder in SpecRegen
MaxTableLines == 2   \* lines of a small branch table in SpecOmega
MaxTagValues == 3    \* values on a "for branches:" line in SpecTags
MaxCountPrompts == 2 \* prompt lines on one stream of the run in SpecCount

\* --------------------------------------------------------------- constants
Models == <<"M0", "M1a">>                 \* config['models'] in Spec
BatchModels == <<"M0", "M1a", "M2a">>     \* config['models'] in SpecBatch
Streams == {"stdout", "stderr"}
None == [status |-> "None"]               \* a run returning None
Absent == <<>>                            \* a None lnL / np; a value v is <<v>>

VARIABLES
  config,            \* the config dict: which optional entries are supplied
  pause_event,       \* threading.Event flags (TRUE = set)
  manual_event,
  manual_all_event,
  stop_event,
  pc,                \* position of the orchestrator thread
  idx,               \* enumerate(fas_files, 1) index of the current gene
  mi,                \* index into config['models'] of the current model
  process,           \* the Popen child of the current run
  rc,                \* process.returncode
  artifact,          \* the child wrote the expected output file (temp dir)
  temp_dir,          \* the run's working directory temp_<gene> exists
  output_path,       \* output_path.exists(): the file moved to the model dir
  cleanup,           \* how the finally block of the last run went
  emitted,           \* prompt lines the child has printed in this run
  pipe,              \* unread prompt lines per stream
  rpc,               \* position of each read_stream thread
  stop_count,        \* stop_count[0]: prompts detected in this run
  newlines,          \* newlines delivered to the child's stdin in this run
  held,              \* per reader: the value of stop_count[0] it loaded for += 1
  leaked_waiting,    \* readers of returned runs still inside event.wait()
  leaked_clear,      \* readers of returned runs released, about to clear
  result,            \* return value of the last _run_single_analysis
  log,               \* tag of the last run's final log line
  sig_since,         \* history: the per-prompt event was set since detection
  sig_gene,          \* history: a continuation signal was given in this gene
  results,           \* self.results (SpecBatch)
  gene_results,      \* gene_results of the gene in progress (SpecBatch)
  current_processed_genes,
  lrt_report,        \* (gene, null, alt) entries written to LRT_results.txt
  lrt_done,          \* comparisons whose SUMMARY block was written
  summary,           \* the rows of analysis_summary.tsv, by gene
  batch_status,      \* how far run_batch_analysis got (SpecBatch)
  attempts,          \* history: <<gene, model, returned None>> per run made
  call,              \* arguments of a function applied on its own; <<>> if none
  ret                \* <<value>> once the function has returned

ctlvars == <<config, pause_event, manual_event, manual_all_event, stop_event>>
orchvars == <<pc, idx, mi, result, log>>
procvars == <<process, rc, artifact, emitted, pipe>>
filevars == <<temp_dir, output_path, cleanup>>
readvars == <<rpc, stop_count, newlines, leaked_waiting, leaked_clear>>
histvars == <<sig_since, sig_gene>>
batchvars == <<results, gene_results, current_processed_genes,
               lrt_report, lrt_done, summary, batch_status, attempts>>
funvars == <<call, ret>>
vars == <<ctlvars, orchvars, procvars, filevars, readvars, histvars,
          batchvars, funvars, held>>

\* ------------------------------------------------------------ configuration
\* config.get('auto_continue_stop_codons', True) and the optional events of
\* the config dict (TRUE = an Event object is supplied, FALSE = None)
Cfg(a, p, m, ma) ==
  [models |-> Models, auto_continue_stop_codons |-> a, pause_event |-> p,
   manual_continue_event |-> m, manual_continue_all_event |-> ma]

Configs ==
  {Cfg(TRUE, TRUE, TRUE, TRUE),      \* the GUI's config (default auto-continue)
   Cfg(FALSE, TRUE, TRUE, TRUE),
   Cfg(FALSE, TRUE, FALSE, TRUE),
   Cfg(FALSE, FALSE, FALSE, FALSE)}

AllOf(v) == [s \in Streams |-> v]

\* for attempt in range(8) in the finally block
MaxCleanupAttempts == 8

\* the finally block found no directory to remove
NoCleanup == [attempts |-> 0, ended |-> "none"]

\* reader positions between detecting a prompt and having answered it
Handling == {"policy", "towait", "waiting", "clear", "write"}

\* threading.Event.set(): every thread inside wait() at that moment returns,
\* whatever happens to the flag afterwards
Release(r) == [s \in Streams |-> IF r[s] = "waiting" THEN "clear" ELSE r[s]]

Waiting(r) == Cardinality({s \in Streams : r[s] = "waiting"})

\* mutant of GateOpen: the gates let the orchestrator through
GateAlwaysOpen == TRUE

\* pause_event.wait() at a gate; no gate when the config holds no pause_event
GateOpen == (~config.pause_event) \/ pause_event

Init ==
  /\ config \in Configs
  /\ pause_event = TRUE            \* start_analysis: pause_event.set()
  /\ manual_event = FALSE          \* manual_event.clear()
  /\ manual_all_event = FALSE      \* manual_all_event.clear()
  /\ stop_event = FALSE            \* stop_event.clear()
  /\ pc = "gene_gate"
  /\ idx = 1
  /\ mi = 1
  /\ process = "none"
  /\ rc = 0
  /\ artifact = FALSE
  /\ temp_dir = FALSE
  /\ output_path = FALSE
  /\ cleanup = NoCleanup
  /\ emitted = 0
  /\ pipe = AllOf(0)
  /\ rpc = AllOf("idle")
  /\ stop_count = 0
  /\ newlines = 0
  /\ held = AllOf(0)
  /\ leaked_waiting = 0
  /\ leaked_clear = 0
  /\ result = None
  /\ log = "none"
  /\ sig_since = AllOf(FALSE)
  /\ sig_gene = FALSE
  /\ results = <<>>
  /\ gene_results = <<>>
  /\ current_processed_genes = 0
  /\ lrt_report = {}
  /\ lrt_done = {}
  /\ summary = <<>>
  /\ batch_status = "idle"
  /\ attempts = <<>>
  /\ call = <<>>
  /\ ret = <<>>

\* ------------------------------------------------- orchestrator thread
\* for idx, fas_file in enumerate(fas_files, 1): pause gate, then the reset
\* of the continue-all event
GeneStart ==
  /\ pc = "gene_gate"
  /\ GateOpen
  /\ manual_all_event' =
       IF config.manual_continue_all_event THEN FALSE ELSE manual_all_event
  /\ sig_gene' = FALSE
  /\ pc' = "model_gate"
  /\ UNCHANGED <<filevars, config, pause_event, manual_event, stop_event, idx, mi,
                 result, log, procvars, readvars, sig_since, batchvars, funvars, held>>

\* for model_name in config['models']: pause gate before each model
ModelGate ==
  /\ pc = "model_gate"
  /\ GateOpen
  /\ pc' = "run_gate"
  /\ UNCHANGED <<filevars, ctlvars, idx, mi, result, log, procvars, readvars,
                 histvars, batchvars, funvars, held>>

\* what shutil.rmtree does at attempt i when the directory is locked for the
\* first `locked` attempts and `last` happens afterwards
RmtreeOutcome(locked, last, i) == IF i <= locked THEN "locked" ELSE last

\* mutant of CleanupLoop: one more attempt before giving up
RECURSIVE CleanupLoopNine(_, _, _)
CleanupLoopNine(locked, last, attempt) ==
  IF attempt >= MaxCleanupAttempts + 1
    THEN [attempts |-> attempt, ended |-> "abandoned"]
  ELSE LET o == RmtreeOutcome(locked, last, attempt + 1)
       IN IF o = "locked" THEN CleanupLoopNine(locked, last, attempt + 1)
          ELSE [attempts |-> attempt + 1, ended |-> o]

\* for attempt in range(8): rmtree; break on success, retry on
\* PermissionError, break on any other exception; the for-else leaves the
\* directory in place
RECURSIVE CleanupLoop(_, _, _)
CleanupLoop(locked, last, attempt) ==
  IF attempt >= MaxCleanupAttempts
    THEN [attempts |-> attempt, ended |-> "abandoned"]
  ELSE LET o == RmtreeOutcome(locked, last, attempt + 1)
       IN IF o = "locked" THEN CleanupLoop(locked, last, attempt + 1)
          ELSE [attempts |-> attempt + 1, ended |-> o]

\* for how many attempts the directory stays locked: never, once, up to the
\* last attempt but one, and for good
LockedFor ==
  {0, 1, MaxCleanupAttempts - 1, MaxCleanupAttempts, MaxCleanupAttempts + 1}

\* mutant of Cleanup: a run that returns without its finally block
CleanupSkipped(exists) == {NoCleanup}

\* the finally block: nothing to do without a directory, else the loop
Cleanup(exists) ==
  IF exists
    THEN {CleanupLoop(locked, last, 0) :
            locked \in LockedFor, last \in {"removed", "error"}}
    ELSE {NoCleanup}

\* temp_dir.exists() after the finally block
LeftBehind(c) == c.ended \in {"abandoned", "error"}

\* What becomes of a run between its pause gate and process.wait()
StartOutcomes == {"ctl_error", "exception", "spawned"}

\* _run_single_analysis from its pause gate to process.wait(): the model
\* directory, the control file, the temp directory, Popen, the two readers
StartRun ==
  /\ pc = "run_gate"
  /\ GateOpen
  /\ \E o \in StartOutcomes :
       \/ /\ o = "ctl_error"           \* except around the .ctl: return None
          /\ result' = None
          /\ log' = "ERROR creating .ctl"
          /\ pc' = "returned"
          /\ UNCHANGED <<procvars, filevars, rpc, stop_count, newlines>>
       \/ /\ o = "exception"           \* copy or Popen raised: return None,
          /\ result' = None            \* the finally block cleans up
          /\ log' = "EXCEPTION"
          /\ \E made \in BOOLEAN : cleanup' \in Cleanup(made)
          /\ temp_dir' = LeftBehind(cleanup')
          /\ pc' = "returned"
          /\ UNCHANGED <<procvars, output_path, rpc, stop_count, newlines>>
       \/ /\ o = "spawned"
          /\ temp_dir' = TRUE
          /\ output_path' = FALSE
          /\ cleanup' = NoCleanup
          /\ process' = "running"
          /\ rc' = 0
          /\ artifact' = FALSE
          /\ emitted' = 0
          /\ pipe' = AllOf(0)
          /\ rpc' = AllOf("read")
          /\ stop_count' = 0
          /\ newlines' = 0
          /\ pc' = "wait"
          /\ UNCHANGED <<result, log>>
  /\ UNCHANGED <<ctlvars, idx, mi, leaked_waiting, leaked_clear,
                 histvars, batchvars, funvars, held>>

\* mutant of Timeout: the expiry is noticed but the child is left running
TimeoutWithoutKill ==
  /\ pc = "wait"
  /\ process = "running"
  /\ artifact' \in BOOLEAN
  /\ pc' = "timeout"
  /\ UNCHANGED <<filevars, ctlvars, idx, mi, result, log, process, rc, emitted, pipe,
                 readvars, histvars, batchvars, funvars, held>>

\* process.wait(timeout=...) raises TimeoutExpired: kill the child, which
\* may or may not have written its output file by then
Timeout ==
  /\ pc = "wait"
  /\ process = "running"
  /\ process' = "killed"
  /\ artifact' \in BOOLEAN
  /\ pc' = "timeout"
  /\ UNCHANGED <<filevars, ctlvars, idx, mi, result, log, rc, emitted, pipe,
                 readvars, histvars, batchvars, funvars, held>>

\* mutant of RunResult: a non-zero return code fails the run
RunResultFailsOnCode(code, art, stops) ==
  IF code # 0 THEN None
  ELSE [status |-> IF art THEN "success" ELSE "partial",
        output_file |-> art,
        stop_count |-> stops]

\* the dict returned after a process exit
RunResult(code, art, stops) ==
  [status |-> IF code = 0 /\ art THEN "success" ELSE "partial",
   output_file |-> art,
   stop_count |-> stops]

\* mutant of Joined: join() without a timeout, which ends only when the
\* reader has finished
JoinedForGood == \A s \in Streams : rpc[s] = "done"

\* a join(timeout=1) ends: the reader finished, or it sits in event.wait()
Joined == \A s \in Streams : rpc[s] \in {"done", "waiting"}

\* the two join(timeout=1), then return: None on the timeout path, the
\* result dict after an exit with any return code
Return ==
  /\ \/ pc = "wait" /\ process = "exited"
     \/ pc = "timeout"
  /\ Joined
  /\ result' = IF pc = "timeout" THEN None
               ELSE RunResult(rc, artifact, stop_count)
  /\ log' = IF pc = "timeout" THEN "TIMEOUT" ELSE "FINISHED"
  /\ output_path' = (pc # "timeout" /\ artifact)  \* shutil.move after an exit
  /\ cleanup' \in Cleanup(temp_dir)
  /\ temp_dir' = LeftBehind(cleanup')
  /\ leaked_waiting' = leaked_waiting + Waiting(rpc)
  /\ rpc' = AllOf("idle")
  /\ sig_since' = AllOf(FALSE)
  /\ pc' = "returned"
  /\ UNCHANGED <<ctlvars, idx, mi, procvars, stop_count, newlines,
                 leaked_clear, sig_gene, batchvars, funvars, held>>

\* back in run_batch_analysis: next model, next gene, or the end of the loop
Advance ==
  /\ pc = "returned"
  /\ process' = "none"
  /\ rc' = 0
  /\ artifact' = FALSE
  /\ emitted' = 0
  /\ pipe' = AllOf(0)
  /\ stop_count' = 0
  /\ newlines' = 0
  /\ result' = None
  /\ log' = "none"
  /\ temp_dir' = FALSE             \* the next run has its own temp dir
  /\ output_path' = FALSE          \* and its own output path
  /\ cleanup' = NoCleanup
  /\ IF mi < Len(config.models)
       THEN mi' = mi + 1 /\ idx' = idx /\ pc' = "model_gate"
       ELSE /\ mi' = 1
            /\ IF idx < NumGenes
                 THEN idx' = idx + 1 /\ pc' = "gene_gate"
                 ELSE idx' = idx /\ pc' = "done"
  /\ UNCHANGED <<ctlvars, rpc, leaked_waiting, leaked_clear, histvars,
                 batchvars, funvars, held>>

\* ------------------------------------------------------ the child process
\* the child prints a prompt line on one of its streams
ProcessEmitUpTo(s, most) ==
  /\ process = "running"
  /\ emitted < most
  /\ emitted' = emitted + 1
  /\ pipe' = [pipe EXCEPT ![s] = @ + 1]
  /\ UNCHANGED <<filevars, ctlvars, orchvars, process, rc, artifact, readvars,
                 histvars, batchvars, funvars, held>>

ProcessEmit(s) == ProcessEmitUpTo(s, MaxPrompts)

\* the child exits by itself with some return code, having written the
\* expected output file or not
ProcessExit(code, wrote) ==
  /\ process = "running"
  /\ process' = "exited"
  /\ rc' = code
  /\ artifact' = wrote
  /\ UNCHANGED <<filevars, ctlvars, orchvars, emitted, pipe, readvars, histvars,
                 batchvars, funvars, held>>

\* ------------------------------------------------ read_stream threads
\* mutant of ReadLine: the readers take turns, a line is read only while the
\* other reader is not handling a prompt
ReadLineInTurn(s) ==
  /\ rpc[s] = "read"
  /\ pipe[s] > 0
  /\ \A t \in Streams \ {s} : rpc[t] \notin Handling
  /\ pipe' = [pipe EXCEPT ![s] = @ - 1]
  /\ stop_count' = stop_count + 1
  /\ rpc' = [rpc EXCEPT ![s] = "policy"]
  /\ sig_since' = [sig_since EXCEPT ![s] = FALSE]
  /\ UNCHANGED <<filevars, ctlvars, orchvars, process, rc, artifact, emitted,
                 newlines, leaked_waiting, leaked_clear, sig_gene, batchvars, funvars, held>>

\* for line in iter(stream.readline, ''): a prompt line is read, detected
\* and counted (stop_count[0] += 1, here in one step; SpecCount tells the
\* load of the counter from its store)
ReadLine(s) ==
  /\ rpc[s] = "read"
  /\ pipe[s] > 0
  /\ pipe' = [pipe EXCEPT ![s] = @ - 1]
  /\ stop_count' = stop_count + 1
  /\ rpc' = [rpc EXCEPT ![s] = "policy"]
  /\ sig_since' = [sig_since EXCEPT ![s] = FALSE]
  /\ UNCHANGED <<filevars, ctlvars, orchvars, process, rc, artifact, emitted,
                 newlines, leaked_waiting, leaked_clear, sig_gene, batchvars, funvars, held>>

\* readline returns '' once the child is gone and the pipe is drained
EndOfStream(s) ==
  /\ rpc[s] = "read"
  /\ pipe[s] = 0
  /\ process \in {"exited", "killed"}
  /\ rpc' = [rpc EXCEPT ![s] = "done"]
  /\ UNCHANGED <<filevars, ctlvars, orchvars, procvars, stop_count, newlines,
                 leaked_waiting, leaked_clear, histvars, batchvars, funvars, held>>

\* mutant of ContinuationPolicy: the missing-channel fallback is tested
\* before the continue-all event
PolicyFallbackFirst(auto_continue, all_set, has_event) ==
  IF auto_continue THEN "auto"
  ELSE IF ~has_event THEN "fallback"
  ELSE IF all_set THEN "wait"
  ELSE "wait"

\* the if / elif / else chain that follows a detected prompt
ContinuationPolicy(auto_continue, all_set, has_event) ==
  IF auto_continue THEN "auto"
  ELSE IF all_set THEN "all"
  ELSE IF ~has_event THEN "fallback"
  ELSE "wait"

\* manual_all_ev is not None and manual_all_ev.is_set()
AllSet == config.manual_continue_all_event /\ manual_all_event

Decide(s) ==
  /\ rpc[s] = "policy"
  /\ LET waits == ContinuationPolicy(config.auto_continue_stop_codons, AllSet,
                                     config.manual_continue_event) = "wait"
     IN /\ rpc' = [rpc EXCEPT ![s] = IF waits THEN "towait" ELSE "write"]
        /\ sig_since' = [sig_since EXCEPT ![s] = waits /\ @]
  /\ UNCHANGED <<filevars, ctlvars, orchvars, procvars, stop_count, newlines,
                 leaked_waiting, leaked_clear, sig_gene, batchvars, funvars, held>>

\* event.wait(): returns at once when the flag is set, else the thread sleeps
EnterWait(s) ==
  /\ rpc[s] = "towait"
  /\ rpc' = [rpc EXCEPT ![s] = IF manual_event THEN "clear" ELSE "waiting"]
  /\ UNCHANGED <<filevars, ctlvars, orchvars, procvars, stop_count, newlines,
                 leaked_waiting, leaked_clear, histvars, batchvars, funvars, held>>

\* event.clear() after the wait
ClearEvent(s) ==
  /\ rpc[s] = "clear"
  /\ manual_event' = FALSE
  /\ rpc' = [rpc EXCEPT ![s] = "write"]
  /\ UNCHANGED <<filevars, config, pause_event, manual_all_event, stop_event, orchvars,
                 procvars, stop_count, newlines, leaked_waiting, leaked_clear,
                 histvars, batchvars, funvars, held>>

\* process.stdin.write('\n'); flush(): raises, and is logged as failed, when
\* the child is gone
StdinWrite(n) == IF process = "running" THEN n + 1 ELSE n

WriteNewline(s) ==
  /\ rpc[s] = "write"
  /\ newlines' = StdinWrite(newlines)
  /\ rpc' = [rpc EXCEPT ![s] = "read"]
  /\ sig_since' = [sig_since EXCEPT ![s] = FALSE]
  /\ UNCHANGED <<filevars, ctlvars, orchvars, procvars, stop_count, leaked_waiting,
                 leaked_clear, sig_gene, batchvars, funvars, held>>

\* a reader of an earlier run, released from event.wait(): it clears the
\* event, its write to that run's dead child fails, its loop ends
LeakedClear ==
  /\ leaked_clear > 0
  /\ leaked_clear' = leaked_clear - 1
  /\ manual_event' = FALSE
  /\ UNCHANGED <<filevars, config, pause_event, manual_all_event, stop_event, orchvars,
                 procvars, rpc, stop_count, newlines, leaked_waiting,
                 histvars, batchvars, funvars, held>>

\* ------------------------------------------------------ the caller (GUI)
\* self.analysis_thread.is_alive(), tested by _stop_analysis only
ThreadAlive == pc # "done"

\* manual_event.set() as seen by the readers
SetManual ==
  /\ manual_event' = TRUE
  /\ rpc' = Release(rpc)
  /\ leaked_clear' = leaked_clear + leaked_waiting
  /\ leaked_waiting' = 0
  /\ sig_since' = [s \in Streams |->
                     sig_since[s] \/ rpc[s] \in {"policy", "towait", "waiting"}]
  /\ sig_gene' = TRUE

\* App._toggle_pause: the event set means running, cleared means paused
TogglePause ==
  /\ pause_event' = ~pause_event
  /\ UNCHANGED <<filevars, config, manual_event, manual_all_event, stop_event, orchvars,
                 procvars, readvars, histvars, batchvars, funvars, held>>

\* App._continue_all_for_gene
ContinueAllForGene ==
  /\ manual_all_event' = TRUE
  /\ SetManual
  /\ UNCHANGED <<filevars, config, pause_event, stop_event, orchvars, procvars,
                 stop_count, newlines, batchvars, funvars, held>>

\* hasattr(self.analysis_instance, 'current_process'): the backend never
\* assigns such an attribute
HasCurrentProcess == FALSE

\* process.terminate() in _stop_analysis, reached only through the hasattr
Terminate(p) == IF HasCurrentProcess /\ p = "running" THEN "killed" ELSE p

\* App._stop_analysis
StopAnalysis ==
  /\ ThreadAlive
  /\ stop_event' = TRUE
  /\ process' = Terminate(process)
  /\ pause_event' = TRUE
  /\ manual_all_event' = TRUE
  /\ SetManual
  /\ UNCHANGED <<filevars, config, orchvars, rc, artifact, emitted, pipe, stop_count,
                 newlines, batchvars, funvars, held>>

\* ------------------------------------------------------------ specification
Next ==
  \/ GeneStart
  \/ ModelGate
  \/ StartRun
  \/ Timeout
  \/ Return
  \/ Advance
  \/ \E s \in Streams : ProcessEmit(s)
  \/ \E code \in {0, 1}, wrote \in BOOLEAN : ProcessExit(code, wrote)
  \/ \E s \in Streams : ReadLine(s)
  \/ \E s \in Streams : EndOfStream(s)
  \/ \E s \in Streams : Decide(s)
  \/ \E s \in Streams : EnterWait(s)
  \/ \E s \in Streams : ClearEvent(s)
  \/ \E s \in Streams : WriteNewline(s)
  \/ LeakedClear
  \/ TogglePause
  \/ ContinueAllForGene
  \/ StopAnalysis

Spec == Init /\ [][Next]_vars

\* ---------------------------------------------------------------------
\* SpecBatch: run_batch_analysis with every run reduced to its return value
\* ---------------------------------------------------------------------
\* position of a model in BatchModels
RECURSIVE Rank(_, _)
Rank(model, i) == IF BatchModels[i] = model THEN i ELSE Rank(model, i + 1)

\* extract_results on a well-formed output file: lnL and np as parsed, here
\* growing with the model's number of parameters
Fitted(model) ==
  [status |-> "success",
   lnL |-> <<2 * Rank(model, 1) - 12>>, np |-> <<Rank(model, 1)>>]

\* a parsed result that fits worse, with more parameters, than any Fitted
Misfit == [status |-> "success", lnL |-> <<-14>>, np |-> <<4>>]

\* an output file whose lnL line has no 'np:' on it: lnL parsed, np None
Uncounted == [status |-> "success", lnL |-> <<-9>>, np |-> Absent]

\* the output file is missing or holds no lnL line: lnL and np are None
Unparsed == [status |-> "partial", lnL |-> Absent, np |-> Absent]

\* What _run_single_analysis can return for a model: None (control-file
\* error, exception, timeout) or the dict built after a process exit, here
\* with the fields the LRT reads. The output without 'np:' is enumerated for
\* the last model only, which keeps the set of batches small.
RunReturns(model) ==
  {None, Fitted(model), Misfit, Unparsed}
    \cup (IF model = BatchModels[Len(BatchModels)] THEN {Uncounted} ELSE {})

\* the ways a run ends, and which of them return None
RunEndings == {"ctl_error", "exception", "timeout", "exited"}

ReturnsOf(ending, model) ==
  IF ending = "exited" THEN RunReturns(model) \ {None} ELSE {None}

\* input_folder.glob("*.fas"): the gene files, numbered by the rank of
\* their path, listed in whatever order the file system yields them
GlobListings ==
  {l \in [1..NumBatchGenes -> 1..NumBatchGenes] :
     \A i, j \in 1..NumBatchGenes : l[i] = l[j] => i = j}

\* mutant of Sorted: the listing is taken as it comes
Unsorted(listing) == listing

RECURSIVE Insert(_, _)
Insert(x, seq) ==
  IF seq = <<>> THEN <<x>>
  ELSE IF x <= Head(seq) THEN <<x>> \o seq
  ELSE <<Head(seq)>> \o Insert(x, Tail(seq))

RECURSIVE SortFrom(_, _)
SortFrom(listing, i) ==
  IF i > Len(listing) THEN <<>> ELSE Insert(listing[i], SortFrom(listing, i + 1))

\* fas_files = sorted(...)
Sorted(listing) == SortFrom(listing, 1)

InitBatch ==
  /\ \E listing \in GlobListings :
       config = [models |-> BatchModels, run_lrt |-> TRUE,
                 fas_files |-> Sorted(listing)]
  /\ pause_event = TRUE
  /\ manual_event = FALSE
  /\ manual_all_event = FALSE
  /\ stop_event = FALSE
  /\ pc = "batch_run"
  /\ idx = 1
  /\ mi = 1
  /\ process = "none"
  /\ rc = 0
  /\ artifact = FALSE
  /\ temp_dir = FALSE
  /\ output_path = FALSE
  /\ cleanup = NoCleanup
  /\ emitted = 0
  /\ pipe = AllOf(0)
  /\ rpc = AllOf("idle")
  /\ stop_count = 0
  /\ newlines = 0
  /\ held = AllOf(0)
  /\ leaked_waiting = 0
  /\ leaked_clear = 0
  /\ result = None
  /\ log = "none"
  /\ sig_since = AllOf(FALSE)
  /\ sig_gene = FALSE
  /\ results = <<>>
  /\ gene_results = <<>>
  /\ current_processed_genes = 0
  /\ lrt_report = {}
  /\ lrt_done = {}
  /\ summary = <<>>
  /\ batch_status = "running"
  /\ attempts = <<>>
  /\ call = <<>>
  /\ ret = <<>>

nonbatch == <<ctlvars, process, rc, artifact, filevars, emitted, pipe, rpc, stop_count,
              newlines, leaked_waiting, leaked_clear, result, log, histvars>>

\* if result: gene_results[model_name] = result
Record(gr, model, r) == IF r # None THEN gr @@ (model :> r) ELSE gr

\* one iteration of `for model_name in config['models']`
BatchRun ==
  /\ pc = "batch_run"
  /\ \E ending \in RunEndings : \E r \in ReturnsOf(ending, config.models[mi]) :
       /\ gene_results' = Record(gene_results, config.models[mi], r)
       /\ attempts' = Append(attempts, <<config.fas_files[idx],
                                         config.models[mi], r = None>>)
  /\ IF mi < Len(config.models)
       THEN mi' = mi + 1 /\ pc' = "batch_run"
       ELSE mi' = 1 /\ pc' = "publish"
  /\ UNCHANGED <<nonbatch, funvars, held, idx, results, current_processed_genes,
                 lrt_report, lrt_done, summary, batch_status>>

\* self.results[fas_file.stem] = gene_results; current_processed_genes = idx
PublishGene ==
  /\ pc = "publish"
  /\ results' = results @@ (config.fas_files[idx] :> gene_results)
  /\ current_processed_genes' = idx
  /\ gene_results' = <<>>
  /\ IF idx < NumBatchGenes
       THEN idx' = idx + 1 /\ pc' = "batch_run"
       ELSE idx' = idx /\ pc' = "summary"
  /\ UNCHANGED <<nonbatch, funvars, held, mi, lrt_report, lrt_done, summary, batch_status,
                 attempts>>

\* a cell of the table: the literal NA, another literal, or a number
NA == <<"NA">>
Literal(s) == <<"text", s>>
Number(v) == <<"number", v>>

\* f"{result.get('lnL', 'NA'):.6f}" if result.get('lnL') else 'NA'
LnLCell(r) == IF r.lnL # Absent /\ r.lnL[1] # 0 THEN Number(r.lnL[1]) ELSE NA

\* str(result.get('np', 'NA')): the key is always in the dict, so an absent
\* count is str(None)
NpCell(r) == IF r.np = Absent THEN Literal("None") ELSE Number(r.np[1])

\* the cells of one model in a gene's row
ModelCells(gr, model) ==
  IF model \in DOMAIN gr
    THEN [lnL |-> LnLCell(gr[model]), np |-> NpCell(gr[model])]
    ELSE [lnL |-> NA, np |-> NA]

\* the data rows: for gene_name in sorted(self.results.keys())
SummaryRows(res, models) ==
  [g \in DOMAIN res |->
     [m \in {models[i] : i \in 1..Len(models)} |-> ModelCells(res[g], m)]]

\* self._save_summary()
SaveSummary ==
  /\ pc = "summary"
  /\ summary' = SummaryRows(results, config.models)
  /\ batch_status' = "summary_saved"
  /\ pc' = "lrt"
  /\ UNCHANGED <<nonbatch, funvars, held, idx, mi, results, gene_results,
                 current_processed_genes, lrt_report, lrt_done, attempts>>

\* --------------------------------------------------------- _run_lrt_analysis
\* the comparisons _run_lrt_analysis looks for, in its order
LrtPairs ==
  << <<"M0", "M1a">>, <<"M1a", "M2a">>, <<"M7", "M8">>, <<"M0", "Branch">>,
     <<"BranchSite_A_null", "BranchSite_A">> >>

InModels(m, models) == \E i \in 1..Len(models) : models[i] = m

Comparisons(models) ==
  SelectSeq(LrtPairs, LAMBDA c : InModels(c[1], models) /\ InModels(c[2], models))

Abs(x) == IF x < 0 THEN -x ELSE x

\* the body of `for gene_name in sorted(self.results.keys())` for one gene:
\* "skip" (continue), "valid" (written to the report) or "raise"
GeneVerdict(gr, null, alt) ==
  IF null \notin DOMAIN gr \/ alt \notin DOMAIN gr THEN "skip"
  ELSE IF gr[null] = None \/ gr[alt] = None THEN "skip"
  ELSE IF gr[null].lnL = Absent \/ gr[alt].lnL = Absent THEN "skip"
  ELSE IF gr[null].np = Absent \/ gr[alt].np = Absent THEN "raise" \* None - int
  ELSE IF Abs(gr[alt].np[1] - gr[null].np[1]) = 0
          \/ 2 * (gr[alt].lnL[1] - gr[null].lnL[1]) < 0 THEN "skip"
  ELSE "valid"

\* the gene loop of one comparison from gene g on: the genes reported, and
\* whether the loop raised
RECURSIVE LrtGenes(_, _, _, _)
LrtGenes(res, c, g, acc) ==
  IF g > Len(res) THEN [valid |-> acc, raised |-> FALSE]
  ELSE LET v == GeneVerdict(res[g], c[1], c[2])
       IN IF v = "raise" THEN [valid |-> acc, raised |-> TRUE]
          ELSE LrtGenes(res, c, g + 1, IF v = "valid" THEN acc \cup {g} ELSE acc)

\* the SUMMARY block divides by total_valid
SummaryRaises(total_valid) == total_valid = 0

\* the comparison loop from comparison i on
RECURSIVE LrtRun(_, _, _, _)
LrtRun(res, comps, i, acc) ==
  IF i > Len(comps) THEN [acc EXCEPT !.raised = FALSE]
  ELSE LET gl == LrtGenes(res, comps[i], 1, {})
           rep == acc.report \cup {<<g, comps[i]>> : g \in gl.valid}
       IN IF gl.raised \/ SummaryRaises(Cardinality(gl.valid))
            THEN [report |-> rep, done |-> acc.done, raised |-> TRUE]
            ELSE LrtRun(res, comps, i + 1,
                        [report |-> rep, done |-> acc.done \cup {comps[i]},
                         raised |-> FALSE])

\* if config['run_lrt'] and len(config['models']) > 1: self._run_lrt_analysis()
RunLrt ==
  /\ pc = "lrt"
  /\ IF config.run_lrt /\ Len(config.models) > 1
       THEN LET out == LrtRun(results, Comparisons(config.models), 1,
                              [report |-> {}, done |-> {}, raised |-> FALSE])
            IN /\ lrt_report' = out.report
               /\ lrt_done' = out.done
               /\ batch_status' = IF out.raised THEN "raised" ELSE "complete"
       ELSE /\ batch_status' = "complete"
            /\ UNCHANGED <<lrt_report, lrt_done>>
  /\ pc' = "done"
  /\ UNCHANGED <<nonbatch, funvars, held, idx, mi, results, gene_results,
                 current_processed_genes, summary, attempts>>

NextBatch ==
  \/ BatchRun
  \/ PublishGene
  \/ SaveSummary
  \/ RunLrt

SpecBatch == InitBatch /\ [][NextBatch]_vars

\* ---------------------------------------------------------------------
\* Functions applied on their own: every variable of the batch is parked
\* ---------------------------------------------------------------------
Parked ==
  /\ config = [models |-> <<>>]
  /\ pause_event = TRUE
  /\ manual_event = FALSE
  /\ manual_all_event = FALSE
  /\ stop_event = FALSE
  /\ pc = "done"
  /\ idx = 1
  /\ mi = 1
  /\ process = "none"
  /\ rc = 0
  /\ artifact = FALSE
  /\ temp_dir = FALSE
  /\ output_path = FALSE
  /\ cleanup = NoCleanup
  /\ emitted = 0
  /\ pipe = AllOf(0)
  /\ rpc = AllOf("idle")
  /\ stop_count = 0
  /\ newlines = 0
  /\ held = AllOf(0)
  /\ leaked_waiting = 0
  /\ leaked_clear = 0
  /\ result = None
  /\ log = "none"
  /\ sig_since = AllOf(FALSE)
  /\ sig_gene = FALSE
  /\ results = <<>>
  /\ gene_results = <<>>
  /\ current_processed_genes = 0
  /\ lrt_report = {}
  /\ lrt_done = {}
  /\ summary = <<>>
  /\ batch_status = "idle"
  /\ attempts = <<>>

batchstate == <<ctlvars, orchvars, procvars, filevars, readvars, histvars,
                batchvars, held>>

\* ---------------------------------------------------------------------
\* SpecCtl: the control file of one run (generate_ctl_content and the part of
\* _run_single_analysis that calls it). Ratios are in tenths: 5 is 0.5.
\* ---------------------------------------------------------------------
\* MODEL_CONFIGS, its fix_omega and omega entries; <<v>> is a present key
ModelConfigs ==
  [n \in {"M0", "M1a", "M2a", "M7", "M8", "Branch", "Branch-site"} |->
     [fix_omega |-> <<0>>, omega |-> <<5>>]]
  @@ ("Branch-site_null" :> [fix_omega |-> <<1>>, omega |-> <<10>>])

\* {}: a dict without either key
EmptyDict == [fix_omega |-> Absent, omega |-> Absent]

\* the keys of NEUTRAL_MODELS
NeutralModels == {"M0", "M1a", "BranchSite_A_null"}

\* model names a run can be asked for: the catalog and the historical name
CtlModelNames == DOMAIN ModelConfigs \cup {"BranchSite_A_null"}

\* dict(self.MODEL_CONFIGS.get(model_name, {}))
DefaultConfig(model_name) ==
  IF model_name \in DOMAIN ModelConfigs THEN ModelConfigs[model_name]
  ELSE EmptyDict

\* for k, v in custom_configs[model_name].items(): model_config[k] = v
Override(model_config, custom) ==
  [fix_omega |-> IF custom.fix_omega # Absent THEN custom.fix_omega
                 ELSE model_config.fix_omega,
   omega |-> IF custom.omega # Absent THEN custom.omega ELSE model_config.omega]

\* float(self.config.get('omega', model_config.get('omega', 0.5) or 0.5))
InitialOmega(config_omega, model_config) ==
  IF config_omega # Absent THEN config_omega[1]
  ELSE IF model_config.omega # Absent /\ model_config.omega[1] # 0
         THEN model_config.omega[1]
  ELSE 5

\* no control file: model_config['fix_omega'] raised KeyError
NoCtl == [written |-> FALSE, generated |-> FALSE, fix_omega |-> -1, omega |-> -1]

\* mutant of GenerateCtlContent: the neutral catalog is not consulted
GenerateCtlAsConfigured(model_config, omega, model_name) ==
  IF model_config.fix_omega = Absent THEN NoCtl
  ELSE [written |-> TRUE, generated |-> TRUE,
        fix_omega |-> model_config.fix_omega[1], omega |-> omega]

\* generate_ctl_content: the fix_omega and omega lines of the template
GenerateCtlContent(model_config, omega, model_name) ==
  IF model_config.fix_omega = Absent THEN NoCtl
  ELSE IF model_name \in NeutralModels
    THEN [written |-> TRUE, generated |-> TRUE, fix_omega |-> 1, omega |-> 10]
  ELSE [written |-> TRUE, generated |-> TRUE,
        fix_omega |-> model_config.fix_omega[1], omega |-> omega]

\* the control file _run_single_analysis writes: the user's own file when
\* model_ctl_paths names an existing one, the generated one otherwise
WriteCtl(c) ==
  LET model_config == Override(DefaultConfig(c.model_name), c.custom)
  IN IF c.provided # Absent
       THEN [written |-> TRUE, generated |-> FALSE,
             fix_omega |-> c.provided[1].fix_omega, omega |-> c.provided[1].omega]
       ELSE GenerateCtlContent(model_config,
                               InitialOmega(c.omega, model_config), c.model_name)

\* custom_model_params[model_name]: nothing, or overrides of either key
CustomParams ==
  {EmptyDict,
   [fix_omega |-> <<0>>, omega |-> Absent],
   [fix_omega |-> <<1>>, omega |-> Absent],
   [fix_omega |-> <<0>>, omega |-> <<20>>]}

\* config['omega']: not given, or the caller's initial ratio
ConfigOmegas == {Absent, <<5>>, <<10>>, <<20>>}

\* model_ctl_paths[model_name]: nothing, or a file of the user
ProvidedCtls == {Absent, <<[fix_omega |-> 0, omega |-> 5]>>}

CtlCalls ==
  [model_name : CtlModelNames, custom : CustomParams, omega : ConfigOmegas,
   provided : ProvidedCtls]

InitCtl ==
  /\ Parked
  /\ call \in CtlCalls
  /\ ret = <<>>

RunWritesCtl ==
  /\ ret = <<>>
  /\ ret' = <<WriteCtl(call)>>
  /\ UNCHANGED <<batchstate, call>>

SpecCtl == InitCtl /\ [][RunWritesCtl]_vars

\* ---------------------------------------------------------------------
\* SpecExpand: auto_complete_null_models, called on a selection and then on
\* its own result
\* ---------------------------------------------------------------------
\* mutant of NullModelPairs: the pair of the branch model is missing
NullModelPairsShort ==
  ("M2a" :> "M1a") @@ ("M8" :> "M7") @@ ("Branch-site" :> "Branch-site_null")

\* NULL_MODEL_PAIRS: alternative -> null
NullModelPairs ==
  ("M2a" :> "M1a") @@ ("M8" :> "M7") @@ ("Branch" :> "M0")
  @@ ("Branch-site" :> "Branch-site_null")

\* the names a selection is made of: the keys of MODEL_CONFIGS
ModelNames == DOMAIN ModelConfigs

Selections == UNION {[1..n -> ModelNames] : n \in 0..MaxSelection}

\* set(selected_models)
SetOf(seq) == {seq[i] : i \in 1..Len(seq)}

\* selected_models.index(x)
IndexOf(x, seq) == CHOOSE i \in 1..Len(seq) :
                     seq[i] = x /\ \A j \in 1..(i - 1) : seq[j] # x

\* mutant of SortKey: every model gets the same key
SortKeyFlat(x, selected_models) == 999

\* key=lambda x: selected_models.index(x) if x in selected_models else 999
\* (index is 0-based)
SortKey(x, selected_models) ==
  IF x \in SetOf(selected_models) THEN IndexOf(x, selected_models) - 1 ELSE 999

\* sorted(list(completed_models), key=...): the set is listed in its
\* iteration order and sorted stably, so models of equal key come out in any
\* order
RECURSIVE SortedLists(_, _)
SortedLists(completed_models, selected_models) ==
  IF completed_models = {} THEN {<<>>}
  ELSE UNION
    {{<<x>> \o rest :
        rest \in SortedLists(completed_models \ {x}, selected_models)} :
       x \in {y \in completed_models :
                \A z \in completed_models :
                  SortKey(y, selected_models) <= SortKey(z, selected_models)}}

\* the loop over selected_models adding NULL_MODEL_PAIRS[model]
WithNulls(selected_models) ==
  SetOf(selected_models)
  \cup {NullModelPairs[a] : a \in SetOf(selected_models) \cap DOMAIN NullModelPairs}

\* mutant of WithNeutral: the neutral models are added whenever the flag is
\* set, whatever was selected
WithNeutralEager(completed_models, selected_models, include_neutral) ==
  IF ~include_neutral THEN completed_models
  ELSE completed_models \cup {"M1a", "Branch-site_null"}

\* the include_neutral block
WithNeutral(completed_models, selected_models, include_neutral) ==
  IF ~include_neutral THEN completed_models
  ELSE completed_models
       \cup (IF "M2a" \in SetOf(selected_models) /\ "M1a" \notin completed_models
               THEN {"M1a"} ELSE {})
       \cup (IF "Branch-site" \in SetOf(selected_models)
                 /\ "Branch-site_null" \notin completed_models
               THEN {"Branch-site_null"} ELSE {})

\* mutant of AutoCompleteNullModels: the null of every alternative is
\* appended to the selection, present or not
AutoCompleteAppending(selected_models, include_neutral) ==
  {selected_models \o rest :
     rest \in SortedLists(
       {NullModelPairs[a] :
          a \in SetOf(selected_models) \cap DOMAIN NullModelPairs}, <<>>)}

\* auto_complete_null_models: the lists it can return
AutoCompleteNullModels(selected_models, include_neutral) ==
  SortedLists(WithNeutral(WithNulls(selected_models), selected_models,
                          include_neutral),
              selected_models)

InitExpand ==
  /\ Parked
  /\ call \in [selected_models : Selections, include_neutral : BOOLEAN]
  /\ ret = <<>>

\* the first call
ExpandSelection ==
  /\ ret = <<>>
  /\ \E r \in AutoCompleteNullModels(call.selected_models, call.include_neutral) :
       ret' = <<r>>
  /\ UNCHANGED <<batchstate, call>>

\* the call on the result of the first
ExpandAgain ==
  /\ Len(ret) = 1
  /\ \E r \in AutoCompleteNullModels(ret[1], call.include_neutral) :
       ret' = <<ret[1], r>>
  /\ UNCHANGED <<batchstate, call>>

NextExpand == ExpandSelection \/ ExpandAgain

SpecExpand == InitExpand /\ [][NextExpand]_vars

\* ---------------------------------------------------------------------
\* SpecDetect: the prompt test of read_stream on one streamed line. A line is
\* a sequence of pieces of text; no word looked for can straddle two pieces.
\* ---------------------------------------------------------------------
Pieces ==
  {"Stop", "stop", "CODON", "codons", "Press", "ENTER", "enter", " ", "x"}

\* str.lower() of a piece
Lower(piece) ==
  IF piece = "Stop" THEN "stop"
  ELSE IF piece = "CODON" THEN "codon"
  ELSE IF piece = "Press" THEN "press"
  ELSE IF piece = "ENTER" THEN "enter"
  ELSE piece

\* word in piece, for a lower-case piece
InPiece(word, piece) ==
  \/ piece = word
  \/ word = "codon" /\ piece = "codons"

\* line.rstrip(): trailing white space goes
RECURSIVE Rstrip(_)
Rstrip(line) ==
  IF line # <<>> /\ line[Len(line)] = " "
    THEN Rstrip(SubSeq(line, 1, Len(line) - 1))
    ELSE line

\* text_line.lower()
LowerLine(line) == [i \in 1..Len(line) |-> Lower(line[i])]

\* word in lower
In(word, lower) == \E i \in 1..Len(lower) : InPiece(word, lower[i])

\* mutant of IsPrompt: 'codon' alone is enough
IsPromptOnCodon(line) ==
  LET lower == LowerLine(Rstrip(line))
  IN In("codon", lower) \/ (In("press", lower) /\ In("enter", lower))

\* is_stop_codon or is_press_enter
IsPrompt(line) ==
  LET lower == LowerLine(Rstrip(line))
      is_stop_codon == In("stop", lower) /\ In("codon", lower)
      is_press_enter == In("press", lower) /\ In("enter", lower)
  IN is_stop_codon \/ is_press_enter

Lines == UNION {[1..n -> Pieces] : n \in 0..MaxLineLen}

InitDetect ==
  /\ Parked
  /\ call \in Lines
  /\ ret = <<>>

\* read_stream takes the line and tests it
TestLine ==
  /\ ret = <<>>
  /\ ret' = <<IsPrompt(call)>>
  /\ UNCHANGED <<batchstate, call>>

SpecDetect == InitDetect /\ [][TestLine]_vars


\* ---------------------------------------------------------------------
\* SpecCompare: the choice of comparisons made by run_batch_analysis and
\* _run_lrt_analysis for a requested list of models.
\* ---------------------------------------------------------------------
\* LRT_COMPARISONS, the (null, alternative) pairs of its three groups
LrtComparisons ==
  { <<"M0", "M1a">>, <<"M1a", "M2a">>, <<"M7", "M8">>, <<"M0", "Branch">>,
    <<"Branch-site_null", "Branch-site">> }

LrtCalls == [models : Selections, run_lrt : BOOLEAN]

InitCompare ==
  /\ Parked
  /\ call \in LrtCalls
  /\ ret = <<>>

\* `if self.config['run_lrt'] and len(self.config['models']) > 1:` followed
\* by the comparisons list that _run_lrt_analysis builds
SelectComparisons ==
  /\ ret = <<>>
  /\ call.run_lrt
  /\ Len(call.models) > 1
  /\ ret' = <<Comparisons(call.models)>>
  /\ UNCHANGED <<batchstate, call>>

SpecCompare == InitCompare /\ [][SelectComparisons]_vars

\* ---------------------------------------------------------------------
\* SpecRegen: regenerate_summary_files on a results folder. The folder is a
\* function from subdirectory names to the output files in them; the file of
\* gene g in folder f is named "{g}_{f}_results.txt", as a run writes it.
\* ---------------------------------------------------------------------
\* no output file for the gene in the folder
NoFile == [file |-> "none"]

\* the text of an output file, as far as the lnL line goes: lnL and np
OutputText(l, n) == [file |-> "text", lnL |-> l, np |-> n]

FileContents ==
  { NoFile,
    OutputText(Absent, Absent),
    OutputText(<<-10>>, <<1>>),
    OutputText(<<-8>>, <<3>>),
    OutputText(<<-8>>, <<1>>) }

\* the two model subdirectories of a results folder
RegenFolders ==
  { {"M0", "M1a"}, {"M1a", "M2a"},
    {"Branch-site_null", "Branch-site"},
    {"BranchSite_A_null", "BranchSite_A"} }

RegenGenes == 1..NumRegenGenes

\* model_name_mapping.get(name, name)
ModelNameMapping(name) ==
  CASE name = "BranchSite_A" -> "Branch-site"
    [] name = "BranchSite_A_null" -> "Branch-site_null"
    [] OTHER -> name

\* reverse_mapping.get(model, model)
ReverseMapping(model) ==
  CASE model = "Branch-site" -> "BranchSite_A"
    [] model = "Branch-site_null" -> "BranchSite_A_null"
    [] OTHER -> model

\* the name of gene g's output file in folder f, as <<gene, model part>>
FileName(g, f) == <<g, f>>

\* results_file.name.split(f'_{part}_results')[0]: the gene when the file
\* name holds the part, the whole file name when it does not
SplitGene(name, part) == IF name[2] = part THEN <<name[1]>> ELSE name

\* item.glob("*_results.txt")
GlobResults(tree, f) == {FileName(g, f) : g \in {x \in RegenGenes : tree[f][x] # NoFile}}

\* (results_folder / folder / f"{gene}_{folder}_results.txt").exists()
ResultsFileExists(tree, folder, gene) ==
  /\ folder \in DOMAIN tree
  /\ Len(gene) = 1
  /\ tree[folder][gene[1]] # NoFile

\* the critical values of chi-square at 0.05 and 0.01 for df = 1, 2, 3, in
\* thousandths
Chi2Critical == << <<3841, 6635>>, <<5991, 9210>>, <<7815, 11345>> >>

\* the Result line written from p_value = 1 - chi2.cdf(lrt_stat, df)
Significance(lrt_stat, df) ==
  IF 1000 * lrt_stat > Chi2Critical[df][2] THEN "p < 0.01"
  ELSE IF 1000 * lrt_stat > Chi2Critical[df][1] THEN "p < 0.05"
  ELSE "no significant difference"

\* the comparisons of _regenerate_lrt_results with their fixed df
RegenLrtPairs ==
  << <<"M0", "M1a", 1>>, <<"M1a", "M2a", 1>>, <<"M7", "M8", 1>>,
     <<"M0", "Branch", 1>>, <<"Branch-site_null", "Branch-site", 2>> >>

\* _regenerate_lrt_results: the genes found and the entries written
RegenerateLrtResults(tree) ==
  LET models == {ModelNameMapping(f) : f \in DOMAIN tree}
      genes == UNION {{SplitGene(n, f) : n \in GlobResults(tree, f)} : f \in DOMAIN tree}
      comparisons == SelectSeq(RegenLrtPairs,
                       LAMBDA c : c[1] \in models /\ c[2] \in models)
      Entry(gene, c) ==
        LET null_folder == ReverseMapping(c[1])
            alt_folder == ReverseMapping(c[2])
            lnL_null == tree[null_folder][gene[1]].lnL[1]
            lnL_alt == tree[alt_folder][gene[1]].lnL[1]
            lrt_stat == 2 * (lnL_alt - lnL_null)
        IN <<gene, <<c[1], c[2]>>, c[3], Significance(lrt_stat, c[3])>>
      Counted(gene, c) ==
        /\ ResultsFileExists(tree, ReverseMapping(c[1]), gene)
        /\ ResultsFileExists(tree, ReverseMapping(c[2]), gene)
        /\ tree[ReverseMapping(c[1])][gene[1]].lnL # Absent
        /\ tree[ReverseMapping(c[2])][gene[1]].lnL # Absent
  IN [genes |-> genes,
      entries |-> UNION {{Entry(gene, comparisons[i]) :
                            gene \in {x \in genes : Counted(x, comparisons[i])}} :
                         i \in 1..Len(comparisons)}]

\* the pairs whose lrt column _regenerate_analysis_summary computes
RegenSummaryPairs ==
  { <<"M0", "M1a">>, <<"M1a", "M2a">>, <<"M7", "M8">>, <<"M0", "Branch">>,
    <<"Branch-site_null", "Branch-site">> }

\* _regenerate_analysis_summary: the rows of the table, the populated
\* '{model}_lnL' cells and the 'lrt_{null}_vs_{alt}' cells
RegenerateAnalysisSummary(tree) ==
  LET models == {ModelNameMapping(f) : f \in DOMAIN tree}
      read == {m \in models : ReverseMapping(m) \in DOMAIN tree}
      Files(m) == GlobResults(tree, ReverseMapping(m))
      rows == UNION {{SplitGene(n, ReverseMapping(m)) : n \in Files(m)} : m \in read}
      lnL == UNION {{<<SplitGene(n, ReverseMapping(m)), m,
                       tree[ReverseMapping(m)][n[1]].lnL[1]>> :
                      n \in {x \in Files(m) :
                               tree[ReverseMapping(m)][x[1]].lnL # Absent}} :
                    m \in read}
      Truthy(gene, m) == \E c \in lnL : c[1] = gene /\ c[2] = m /\ c[3] # 0
      Cell(gene, m) == (CHOOSE c \in lnL : c[1] = gene /\ c[2] = m)[3]
  IN [rows |-> rows,
      lnL |-> lnL,
      lrt |-> {<<q[1], q[2], 2 * (Cell(q[1], q[2][2]) - Cell(q[1], q[2][1]))>> :
                 q \in {x \in rows \X RegenSummaryPairs :
                          Truthy(x[1], x[2][1]) /\ Truthy(x[1], x[2][2])}}]

\* _regenerate_batch_log: the genes listed and the (gene, model) lines that
\* report a file
RegenerateBatchLog(tree) ==
  LET models == {ModelNameMapping(f) : f \in DOMAIN tree}
      genes == UNION {{SplitGene(n, ModelNameMapping(f)) : n \in GlobResults(tree, f)} :
                      f \in DOMAIN tree}
  IN [genes |-> genes,
      found |-> {<<gene, m>> \in genes \X models : ResultsFileExists(tree, m, gene)}]

\* what the runs that wrote the folder returned: the fields extracted from
\* each output file, None-valued when the file is missing
StreamedResults(tree) ==
  [g \in RegenGenes |->
     [f \in DOMAIN tree |->
        IF tree[f][g] = NoFile THEN Unparsed
        ELSE [status |-> "success", lnL |-> tree[f][g].lnL, np |-> tree[f][g].np]]]

\* a list of the folder's models, as config['models'] of those runs
RECURSIVE ListOf(_)
ListOf(S) == IF S = {} THEN <<>>
             ELSE LET x == CHOOSE y \in S : TRUE IN <<x>> \o ListOf(S \ {x})

\* _run_lrt_analysis on those results: the entries written, with the df and
\* the Result line of each
StreamedLrtResults(tree) ==
  LET res == StreamedResults(tree)
      out == LrtRun(res, Comparisons(ListOf(DOMAIN tree)), 1,
                    [report |-> {}, done |-> {}, raised |-> FALSE])
      Entry(e) ==
        LET g == e[1]
            c == e[2]
            df == Abs(res[g][c[2]].np[1] - res[g][c[1]].np[1])
            lrt_stat == 2 * (res[g][c[2]].lnL[1] - res[g][c[1]].lnL[1])
        IN <<<<g>>, c, df, Significance(lrt_stat, df)>>
  IN {Entry(e) : e \in out.report}

InitRegen ==
  /\ Parked
  /\ \E folders \in RegenFolders : call \in [folders -> [RegenGenes -> FileContents]]
  /\ ret = <<>>

\* regenerate_summary_files, next to what the runs themselves reported
RegenerateSummaryFiles ==
  /\ ret = <<>>
  /\ ret' = [analysis_summary |-> RegenerateAnalysisSummary(call),
             batch_analysis_log |-> RegenerateBatchLog(call),
             LRT_results |-> RegenerateLrtResults(call),
             streamed |-> StreamedLrtResults(call)]
  /\ UNCHANGED <<batchstate, call>>

SpecRegen == InitRegen /\ [][RegenerateSummaryFiles]_vars

\* ---------------------------------------------------------------------
\* SpecOmega: the ratio extractors of SitesParser on the text of one output
\* file. The text is given by what the extractors look for in it: the words
\* 'site class', 'background w' and 'foreground w', the lines that follow
\* 'dN & dS for each branch', and the ratio of the model parameters. Ratios
\* are in hundredths: 42 is 0.42.
\* ---------------------------------------------------------------------
\* the lines after the table header that the loop may look at:
\* range(i + 1, min(i + 200, len(lines)))
TableWindow == 199

\* lines of the table: an empty line, the column header (it holds 'branch'),
\* the 'tree length' line that ends the table, a row of fewer than five
\* columns, a row whose 5th column is not a number, a row with a 5th column
BlankLine == [line |-> "blank"]
ColumnHeader == [line |-> "branch"]
TreeLength == [line |-> "tree length"]
ShortRow == [line |-> "short"]
TextRow == [line |-> "text"]
DataRow(v) == [line |-> "row", omega |-> v]

\* 5th-column values: inside the bound, outside it on either side
TableOmegas == {40, 44, -1200, 99900}

TableLines ==
  {BlankLine, ColumnHeader, TreeLength, ShortRow, TextRow}
    \cup {DataRow(v) : v \in TableOmegas}

\* n copies of a line
Fill(line, n) == [i \in 1..n |-> line]

\* the table of a large tree: the header lines, then 98 rows at 0.40 and
\* 98 + k rows at 0.44
LargeTable(k) ==
  <<BlankLine, ColumnHeader, BlankLine>>
    \o Fill(DataRow(40), 98) \o Fill(DataRow(44), 98 + k)

\* the text after 'dN & dS for each branch', or Absent without that header
Tables ==
  {Absent}
    \cup {<<t>> : t \in UNION {[1..n -> TableLines] : n \in 0..MaxTableLines}}
    \cup {<<LargeTable(k)>> : k \in 0..2}

\* -10 <= omega <= 100
InBound(omega) == -1000 <= omega /\ omega <= 10000

\* the loop over the lines after the header: the lines looked at are those
\* of the window before the first line that ends the table; of these the
\* rows with a 5th column inside the bound give the values
AcceptedOmegas(lines) ==
  LET last == IF Len(lines) < TableWindow THEN Len(lines) ELSE TableWindow
      ends == {j \in 1..last : lines[j] = TreeLength}
      stop == IF ends = {} THEN last + 1
              ELSE CHOOSE j \in ends : \A k \in ends : j <= k
      rows == SelectSeq(SubSeq(lines, 1, stop - 1),
                        LAMBDA l : l.line = "row" /\ InBound(l.omega))
  IN [i \in 1..Len(rows) |-> rows[i].omega]

\* sorted(values): the i-th element is the value with fewer than i values
\* below it and at least i values not above it
SortValues(values) ==
  [i \in 1..Len(values) |->
     CHOOSE v \in {values[k] : k \in 1..Len(values)} :
       /\ Len(SelectSeq(values, LAMBDA x : x < v)) < i
       /\ i <= Len(SelectSeq(values, LAMBDA x : x <= v))]

\* np.median: the middle value, or the mean of the two middle values
Median(values) ==
  LET s == SortValues(values)
      n == Len(s)
  IN IF n % 2 = 1 THEN s[(n + 1) \div 2]
     ELSE (s[n \div 2] + s[n \div 2 + 1]) \div 2

\* extract_omega_global
ExtractOmegaGlobal(text) ==
  IF text.table = Absent THEN Absent
  ELSE LET omegas == AcceptedOmegas(text.table[1])
       IN IF omegas # <<>> THEN <<Median(omegas)>> ELSE Absent

\* extract_omega_values_from_model_params
ExtractOmegaValuesFromModelParams(text) ==
  IF text.w # Absent /\ InBound(text.w[1]) THEN text.w ELSE Absent

\* mutant of ExtractOmegaRobust: no test for the site classes
ExtractOmegaAnyModel(text) ==
  IF ExtractOmegaGlobal(text) # Absent THEN ExtractOmegaGlobal(text)
  ELSE ExtractOmegaValuesFromModelParams(text)

\* extract_omega_robust
ExtractOmegaRobust(text) ==
  IF text.site_class = "site class" /\ text.background = "background w"
       /\ text.foreground = "foreground w"
    THEN Absent
  ELSE IF ExtractOmegaGlobal(text) # Absent THEN ExtractOmegaGlobal(text)
  ELSE ExtractOmegaValuesFromModelParams(text)

OutputTexts ==
  [site_class : {"", "site class"},
   background : {"", "background w"},
   foreground : {"", "foreground w"},
   table : Tables,
   w : {Absent, <<50>>, <<99900>>}]

InitOmega ==
  /\ Parked
  /\ call \in OutputTexts
  /\ ret = <<>>

ExtractOmega ==
  /\ ret = <<>>
  /\ ret' = [robust |-> ExtractOmegaRobust(call),
             global |-> ExtractOmegaGlobal(call)]
  /\ UNCHANGED <<batchstate, call>>

SpecOmega == InitOmega /\ [][ExtractOmega]_vars

\* ---------------------------------------------------------------------
\* SpecTags: extract_omega_by_tags on a text whose only ratios are on the
\* line 'w (dN/dS) for branches:'. The line is the sequence of its values, in
\* hundredths; tag 0 stands for 'background' and tag k for '#k'.
\* ---------------------------------------------------------------------
\* values codeml prints: two ordinary ratios, a large one, and the 999 it
\* prints when there is no data
TagValues == {35, 6, 15000, 99900}

BranchesLines == UNION {[1..n -> TagValues] : n \in 0..MaxTagValues}

\* if -10 <= val <= 100 or val == 999
TagValueAccepted(val) == InBound(val) \/ val = 99900

\* the branch of extract_omega_by_tags for the 'for branches:' line; an
\* empty mapping is what the later fallback gives without a branch table
ExtractOmegaByTags(values) ==
  LET omega_values == SelectSeq(values, TagValueAccepted)
  IN [k \in 0..(Len(omega_values) - 1) |-> omega_values[k + 1]]

InitTags ==
  /\ Parked
  /\ call \in BranchesLines
  /\ ret = <<>>

ExtractTags ==
  /\ ret = <<>>
  /\ ret' = <<ExtractOmegaByTags(call)>>
  /\ UNCHANGED <<batchstate, call>>

SpecTags == InitTags /\ [][ExtractTags]_vars

\* ---------------------------------------------------------------------
\* SpecExtract: what each extraction routine does with its file when the
\* file cannot be opened, when the text lacks what the routine looks for, and
\* when the number it finds does not convert or lies outside the bound.
\* ---------------------------------------------------------------------
ExtractionRoutines ==
  {"_extract_likelihood", "_extract_np", "extract_omega_global",
   "extract_omega_values_from_model_params", "extract_omega_robust",
   "extract_omega_by_branches", "extract_omega_by_tags",
   "parse_sites_from_file", "extract_branchsite_class_data"}

\* the routines whose whole body, open() included, is inside try/except
Guarded == ExtractionRoutines \ {"parse_sites_from_file"}

\* the routines whose pattern takes digits and dots ([\d.]+) or a column of
\* the line and hands it to float()
ConvertsLoosely ==
  ExtractionRoutines \ {"_extract_likelihood", "_extract_np"}

\* the routines that drop a ratio outside -10..100
Bounded ==
  {"extract_omega_global", "extract_omega_values_from_model_params",
   "extract_omega_robust", "extract_omega_by_branches"}

\* the file does not exist or cannot be read
Unreadable == [file |-> "unreadable"]

\* a readable file: whether the text holds the section or line looked for,
\* and the number in it: well formed, like '0.9.9', or like '158.3'
ReadableFiles ==
  [file : {"text"}, found : BOOLEAN, number : {"ok", "malformed", "large"}]

\* the outcome of a routine: "value", "absent" (None, {} or an empty frame)
\* or "raise"
Extract(routine, f) ==
  IF f = Unreadable
    THEN IF routine \in Guarded THEN "absent" ELSE "raise"
  ELSE IF ~f.found THEN "absent"
  ELSE IF f.number = "malformed" /\ routine \in ConvertsLoosely
    THEN IF routine \in Guarded THEN "absent" ELSE "raise"
  ELSE IF f.number = "large" /\ routine \in Bounded THEN "absent"
  ELSE "value"

InitExtract ==
  /\ Parked
  /\ call \in [routine : ExtractionRoutines,
               input : {Unreadable} \cup ReadableFiles]
  /\ ret = <<>>

CallRoutine ==
  /\ ret = <<>>
  /\ ret' = <<Extract(call.routine, call.input)>>
  /\ UNCHANGED <<batchstate, call>>

SpecExtract == InitExtract /\ [][CallRoutine]_vars

\* ---------------------------------------------------------------------
\* SpecRun: the last run of the batch, with a child that prompts more than
\* once, so that both read_stream threads can be handling a prompt at the
\* same time
\* ---------------------------------------------------------------------
\* prompts one child may print in SpecRun
MaxRunPrompts == MaxPrompts + 1

\* every step one read_stream thread can take; each thread runs the same
\* function on its own stream, started on its own and never joined to the other
ReaderStep(s) ==
  \/ ReadLine(s)
  \/ EndOfStream(s)
  \/ Decide(s)
  \/ EnterWait(s)
  \/ ClearEvent(s)
  \/ WriteNewline(s)

\* the batch has reached its last run; a reader of an earlier run may still
\* sit in event.wait()
InitRun ==
  /\ config \in Configs
  /\ pause_event = TRUE
  /\ manual_event = FALSE
  /\ manual_all_event = FALSE
  /\ stop_event = FALSE
  /\ pc = "model_gate"
  /\ idx = NumGenes
  /\ mi = Len(config.models)
  /\ process = "none"
  /\ rc = 0
  /\ artifact = FALSE
  /\ temp_dir = FALSE
  /\ output_path = FALSE
  /\ cleanup = NoCleanup
  /\ emitted = 0
  /\ pipe = AllOf(0)
  /\ rpc = AllOf("idle")
  /\ stop_count = 0
  /\ newlines = 0
  /\ held = AllOf(0)
  /\ leaked_waiting \in {0, 1}
  /\ leaked_clear = 0
  /\ result = None
  /\ log = "none"
  /\ sig_since = AllOf(FALSE)
  /\ sig_gene = FALSE
  /\ results = <<>>
  /\ gene_results = <<>>
  /\ current_processed_genes = 0
  /\ lrt_report = {}
  /\ lrt_done = {}
  /\ summary = <<>>
  /\ batch_status = "idle"
  /\ attempts = <<>>
  /\ call = <<>>
  /\ ret = <<>>

NextRun ==
  \/ ModelGate
  \/ StartRun
  \/ Timeout
  \/ Return
  \/ Advance
  \/ \E s \in Streams : ProcessEmitUpTo(s, MaxRunPrompts)
  \/ \E code \in {0, 1}, wrote \in BOOLEAN : ProcessExit(code, wrote)
  \/ \E s \in Streams : ReaderStep(s)
  \/ LeakedClear
  \/ TogglePause
  \/ ContinueAllForGene
  \/ StopAnalysis

SpecRun == InitRun /\ [][NextRun]_vars

\* SpecRun with the scheduling the program can count on: the orchestrator
\* thread and each reader thread get to run, and process.wait(timeout=...)
\* expires on a child that has not exited.  Nothing is assumed of the user
\* (no signal need ever be given) nor of the child (it need not exit or print)
FairRun ==
  /\ SpecRun
  /\ WF_vars(Timeout)
  /\ WF_vars(Return)
  /\ \A s \in Streams : WF_vars(ReaderStep(s))



\* ---------------------------------------------------------------------
\* SpecCount: the prompt counter of one run.  stop_count is a one-element
\* list shared by the two read_stream threads; stop_count[0] += 1 is a load
\* of the element, an addition and a store, with no lock around them, so a
\* step of the other reader can fall between the load and the store.
\* The child has printed its prompt lines and exited; the GUI's default
\* configuration (auto-continue) answers every prompt without waiting.
\* ---------------------------------------------------------------------
\* stop_count[0] += 1, first half: the line is read and detected as a prompt,
\* the current value of the element is loaded
LoadCount(s) ==
  /\ rpc[s] = "read"
  /\ pipe[s] > 0
  /\ pipe' = [pipe EXCEPT ![s] = @ - 1]
  /\ held' = [held EXCEPT ![s] = stop_count]
  /\ rpc' = [rpc EXCEPT ![s] = "counting"]
  /\ sig_since' = [sig_since EXCEPT ![s] = FALSE]
  /\ UNCHANGED <<filevars, ctlvars, orchvars, process, rc, artifact, emitted,
                 stop_count, newlines, leaked_waiting, leaked_clear, sig_gene,
                 batchvars, funvars>>

\* stop_count[0] += 1, second half: the loaded value plus one is stored
StoreCount(s) ==
  /\ rpc[s] = "counting"
  /\ stop_count' = held[s] + 1
  /\ rpc' = [rpc EXCEPT ![s] = "policy"]
  /\ UNCHANGED <<filevars, ctlvars, orchvars, procvars, newlines, held,
                 leaked_waiting, leaked_clear, histvars, batchvars, funvars>>

\* the run after Popen and the start of the two readers, the child having
\* printed call[s] prompt lines on stream s and exited with its output written
InitCount ==
  /\ call \in [Streams -> 0..MaxCountPrompts]
  /\ ret = <<>>
  /\ config = Cfg(TRUE, TRUE, TRUE, TRUE)
  /\ pause_event = TRUE
  /\ manual_event = FALSE
  /\ manual_all_event = FALSE
  /\ stop_event = FALSE
  /\ pc = "wait"
  /\ idx = NumGenes
  /\ mi = Len(config.models)
  /\ process = "exited"
  /\ rc = 0
  /\ artifact = TRUE
  /\ temp_dir = TRUE
  /\ output_path = FALSE
  /\ cleanup = NoCleanup
  /\ emitted = call["stdout"] + call["stderr"]
  /\ pipe = call
  /\ rpc = AllOf("read")
  /\ stop_count = 0
  /\ newlines = 0
  /\ held = AllOf(0)
  /\ leaked_waiting = 0
  /\ leaked_clear = 0
  /\ result = None
  /\ log = "none"
  /\ sig_since = AllOf(FALSE)
  /\ sig_gene = FALSE
  /\ results = <<>>
  /\ gene_results = <<>>
  /\ current_processed_genes = 0
  /\ lrt_report = {}
  /\ lrt_done = {}
  /\ summary = <<>>
  /\ batch_status = "idle"
  /\ attempts = <<>>

NextCount ==
  \/ \E s \in Streams : LoadCount(s)
  \/ \E s \in Streams : StoreCount(s)
  \/ \E s \in Streams : Decide(s)
  \/ \E s \in Streams : WriteNewline(s)
  \/ \E s \in Streams : EndOfStream(s)
  \/ Return

SpecCount == InitCount /\ [][NextCount]_vars

\* ---------------------------------------------------------------------
\* SpecStart: one run of _run_single_analysis from its pause gate to Popen:
\* the control file, the working directory and its files, the spawn.
\* ---------------------------------------------------------------------
\* model_ctl_paths[model_name]: no entry, a file that reads, a file whose
\* read_text raises, a path that is no file
CtlFiles == {"none", "readable", "unreadable", "missing"}

\* labeled_tree_content: not supplied, or a tree with or without a '#1' mark
LabeledFull == {Absent, <<"marked">>, <<"unmarked">>}

\* labeled_tree_branchsite: not supplied, or the marked tree
LabeledBranchsite == {Absent, <<"marked">>}

\* the inputs of one run and what its file operations meet: tree_file says
\* whether config['tree_file'] can be copied, label_written whether
\* labeled.nwk can be written, codeml whether Popen finds the binary
StartCalls ==
  [model_name : CtlModelNames, custom : {EmptyDict}, omega : {<<5>>},
   ctl_file : CtlFiles, labeled_full : LabeledFull,
   labeled_branchsite : LabeledBranchsite,
   tree_file : BOOLEAN, label_written : BOOLEAN, codeml : BOOLEAN]

\* model_name.startswith('BranchSite') or model_name.startswith('Branch-site')
BranchSiteNamed(model_name) ==
  model_name \in {"Branch-site", "Branch-site_null", "BranchSite_A",
                  "BranchSite_A_null"}

\* the labelled tree chosen for the model, Absent when it is None or empty
LabeledContent(c) ==
  IF BranchSiteNamed(c.model_name)
    THEN IF c.labeled_branchsite # Absent THEN c.labeled_branchsite
         ELSE IF c.labeled_full = <<"marked">> THEN c.labeled_full
         ELSE Absent
  ELSE IF c.model_name = "Branch" THEN c.labeled_full
  ELSE Absent

\* tree_filename: 'labeled.nwk', or Path(config['tree_file']).name
TreeFilename(c) == IF LabeledContent(c) # Absent THEN "labeled.nwk" ELSE "tree"

\* mutant of RunCtl: a control file of the user that cannot be read is
\* replaced by the generated one
RunCtlLenient(c) ==
  IF c.ctl_file = "readable"
    THEN WriteCtl([model_name |-> c.model_name, custom |-> c.custom,
                   omega |-> c.omega,
                   provided |-> <<[fix_omega |-> 0, omega |-> 5]>>])
  ELSE WriteCtl([model_name |-> c.model_name, custom |-> c.custom,
                 omega |-> c.omega, provided |-> Absent])

\* the try block around the control file: the user's file is read when it
\* exists (read_text may raise), the generated file is written when no path
\* is given or the path is no file; NoCtl when anything raised
RunCtl(c) ==
  IF c.ctl_file = "unreadable" THEN NoCtl
  ELSE IF c.ctl_file = "readable"
    THEN WriteCtl([model_name |-> c.model_name, custom |-> c.custom,
                   omega |-> c.omega,
                   provided |-> <<[fix_omega |-> 0, omega |-> 5]>>])
  ELSE WriteCtl([model_name |-> c.model_name, custom |-> c.custom,
                 omega |-> c.omega, provided |-> Absent])

\* the control file is written into the model directory, or the except
\* clause logs the error and returns None
CreateCtl ==
  /\ pc = "run_gate"
  /\ GateOpen
  /\ LET ctl == RunCtl(call)
     IN IF ctl.written
          THEN /\ ret' = <<[treefile |-> TreeFilename(call), files |-> {}]>>
               /\ pc' = "prepare"
               /\ UNCHANGED <<result, log>>
          ELSE /\ result' = None
               /\ log' = "ERROR creating .ctl"
               /\ pc' = "returned"
               /\ UNCHANGED ret
  /\ UNCHANGED <<ctlvars, idx, mi, procvars, filevars, readvars, histvars,
                 batchvars, call, held>>

\* what is in temp_dir besides the control file and the alignment: the
\* labelled tree when it could be written, else the plain tree when it could
\* be copied (both failures are swallowed); without a labelled tree, the plain
\* tree, whose copy is not guarded
TreeFiles(c) ==
  IF LabeledContent(c) # Absent
    THEN IF c.label_written THEN {"labeled.nwk"}
         ELSE IF c.tree_file THEN {"tree"} ELSE {}
  ELSE {"tree"}

\* shutil.copy(self.config['tree_file'], temp_dir) outside any inner try
CopyRaises(c) == LabeledContent(c) = Absent /\ ~c.tree_file

\* mutant of RunRaised: the exception leaves the function, no cleanup
RunRaisedThrough ==
  /\ result' = None
  /\ log' = "EXCEPTION"
  /\ cleanup' = NoCleanup
  /\ temp_dir' = temp_dir
  /\ pc' = "raised"

\* except Exception: log, return None; then the finally block
RunRaised ==
  /\ result' = None
  /\ log' = "EXCEPTION"
  /\ cleanup' \in Cleanup(TRUE)
  /\ temp_dir' = LeftBehind(cleanup')
  /\ pc' = "returned"

\* temp_dir.mkdir and the copies into it
PrepareTempDir ==
  /\ pc = "prepare"
  /\ IF CopyRaises(call)
       THEN RunRaised /\ UNCHANGED ret
       ELSE /\ temp_dir' = TRUE
            /\ ret' = <<[ret[1] EXCEPT
                          !.files = {"ctl", "fas"} \cup TreeFiles(call)]>>
            /\ pc' = "spawn"
            /\ UNCHANGED <<result, log, cleanup>>
  /\ UNCHANGED <<ctlvars, idx, mi, procvars, output_path, readvars, histvars,
                 batchvars, call, held>>

\* subprocess.Popen: the child runs, or the binary is not found and Popen
\* raises
Spawn ==
  /\ pc = "spawn"
  /\ IF call.codeml
       THEN /\ process' = "running"
            /\ pc' = "wait"
            /\ UNCHANGED <<result, log, cleanup, temp_dir>>
       ELSE RunRaised /\ UNCHANGED process
  /\ UNCHANGED <<ctlvars, idx, mi, rc, artifact, emitted, pipe, output_path,
                 readvars, histvars, batchvars, funvars, held>>

\* the last run of the batch is at its pause gate
InitStart ==
  /\ call \in StartCalls
  /\ ret = <<>>
  /\ config = Cfg(TRUE, TRUE, TRUE, TRUE)
  /\ pause_event = TRUE
  /\ manual_event = FALSE
  /\ manual_all_event = FALSE
  /\ stop_event = FALSE
  /\ pc = "run_gate"
  /\ idx = NumGenes
  /\ mi = Len(config.models)
  /\ process = "none"
  /\ rc = 0
  /\ artifact = FALSE
  /\ temp_dir = FALSE
  /\ output_path = FALSE
  /\ cleanup = NoCleanup
  /\ emitted = 0
  /\ pipe = AllOf(0)
  /\ rpc = AllOf("idle")
  /\ stop_count = 0
  /\ newlines = 0
  /\ held = AllOf(0)
  /\ leaked_waiting = 0
  /\ leaked_clear = 0
  /\ result = None
  /\ log = "none"
  /\ sig_since = AllOf(FALSE)
  /\ sig_gene = FALSE
  /\ results = <<>>
  /\ gene_results = <<>>
  /\ current_processed_genes = 0
  /\ lrt_report = {}
  /\ lrt_done = {}
  /\ summary = <<>>
  /\ batch_status = "idle"
  /\ attempts = <<>>

NextStart ==
  \/ CreateCtl
  \/ PrepareTempDir
  \/ Spawn
  \/ Advance

SpecStart == InitStart /\ [][NextStart]_vars


\* =====================================================================
\* Claims
\* =====================================================================

\* the orchestrator is between two runs, or past the last one
BetweenRuns == pc \in {"model_gate", "gene_gate", "done"}

Prescribed ==
  IF config.auto_continue_stop_codons THEN "write"
  ELSE IF config.manual_continue_all_event /\ manual_all_event THEN "write"
  ELSE IF ~config.manual_continue_event THEN "write"
  ELSE "towait"

\* every reader follows the precedence, and one blocked under (4) leaves the
\* wait only with the per-prompt event set
Precedence ==
  \A s \in Streams :
    /\ (rpc[s] = "policy" /\ rpc'[s] # "policy") => rpc'[s] = Prescribed
    /\ (rpc[s] \in {"towait", "waiting"} /\ rpc'[s] = "clear") =>
         (manual_event \/ manual_event')
    /\ (rpc[s] = "waiting" /\ rpc'[s] # "waiting") =>
         (rpc'[s] = "clear" \/ pc' = "returned")

\* no reader of the current run is busy with a prompt
Quiet == \A s \in Streams : rpc[s] \in {"read", "done"}

InHand == Cardinality({s \in Streams : rpc[s] \in Handling})

\* C2 as stated: the policy is decided in the precedence (1) auto-continue,
\* (2) continue-all, (3) no per-prompt channel, (4) block on the per-prompt
\* signal, and in every case exactly one newline is written to the child's
\* stdin per detected prompt.
C2_ExactlyOneNewline ==
  /\ [][Precedence]_vars
  /\ [](Quiet => newlines = stop_count)

\* C2 amended: the policy is decided in that precedence; per detected prompt
\* exactly one write of a newline is attempted once the policy lets it through,
\* which reaches the child's stdin while the child is still running and is
\* lost (caught and logged) when the child has already gone: never more than
\* one newline per prompt, exactly one as long as the child runs.
C2_AtMostOneNewline ==
  /\ [][Precedence]_vars
  /\ [](/\ newlines + InHand <= stop_count
        /\ process = "running" => newlines + InHand = stop_count)
  /\ [][\A s \in Streams :
          (rpc[s] = "write" /\ rpc'[s] # "write" /\ pc' = pc) =>
             newlines' = IF process = "running" THEN newlines + 1 ELSE newlines
       ]_vars

C2_Witness ==
  /\ ~config.auto_continue_stop_codons
  /\ config.manual_continue_event
  /\ process = "running"
  /\ Quiet
  /\ stop_count = 1
  /\ newlines = 1

\* C3 as stated: under (4) no newline is written for a prompt until the
\* caller has signalled continuation for that prompt, that is with a signal
\* given after the prompt was detected; and once the reader has passed the
\* wait the per-prompt signal is clear again.
C3_SignalForThisPrompt ==
  /\ [](\A s \in Streams : rpc[s] = "clear" => sig_since[s])
  /\ [][\A s \in Streams :
          (rpc[s] = "clear" /\ rpc'[s] = "write") => ~manual_event']_vars

\* the configuration in which a prompt needs a caller signal
NeedsSignal ==
  ~config.auto_continue_stop_codons /\ config.manual_continue_event

\* C4 as stated: continue-all is cleared at the start of every gene, and no
\* prompt of a later gene is resolved without a caller signal given during
\* that gene.
C4_ContinueAllGeneScoped ==
  /\ [][(pc = "gene_gate" /\ pc' # "gene_gate"
          /\ config.manual_continue_all_event) => ~manual_all_event']_vars
  /\ [](\A s \in Streams :
          (NeedsSignal /\ ~stop_event /\ idx > 1
           /\ rpc[s] \in {"clear", "write"}) => sig_gene)

\* C5 as stated: once the abort signal is set no new run is started and no
\* process is spawned.
C5_NoSpawnAfterAbort ==
  [][/\ (pc = "run_gate" /\ pc' # "run_gate") => ~stop_event
     /\ (process # "running" /\ process' = "running") => ~stop_event]_vars

\* C6 as stated: the abort terminates the process that is in flight.
C6_AbortTerminatesProcess ==
  [][(~stop_event /\ stop_event' /\ process = "running")
       => process' # "running"]_vars

\* C7 as stated: the abort sets the pause gate and both continuation events,
\* so that with the abort set no reader stays blocked on a signal.
C7_AbortReleasesAll ==
  /\ [][(~stop_event /\ stop_event')
          => (pause_event' /\ manual_event' /\ manual_all_event')]_vars
  /\ [](stop_event =>
          /\ \A s \in Streams : rpc[s] # "waiting"
          /\ leaked_waiting = 0)

\* the pause signal is active
Paused == config.pause_event /\ ~pause_event

Gates == {"gene_gate", "model_gate", "run_gate"}

Failed(g, model) ==
  \E i \in 1..Len(attempts) : attempts[i] = <<g, model, TRUE>>

\* every run that returned a result returned a well-fitted one
OnlyFailuresSpoil ==
  \A g \in DOMAIN results : \A m \in DOMAIN results[g] :
    results[g][m] = Fitted(m)

\* C9 as stated: a failed run does not abort the batch: every (gene, model)
\* pair is attempted, the failed cell is absent from the results, and of the
\* LRT comparisons exactly those of a gene with a failed model are skipped.
C9_FailureIsolated ==
  (pc = "done" /\ OnlyFailuresSpoil) =>
    /\ Len(attempts) = NumBatchGenes * Len(config.models)
    /\ \A g \in 1..NumBatchGenes : \A i \in 1..Len(config.models) :
         Failed(g, config.models[i]) <=> config.models[i] \notin DOMAIN results[g]
    /\ \A g \in 1..NumBatchGenes :
         \A i \in 1..Len(Comparisons(config.models)) :
           LET c == Comparisons(config.models)[i]
           IN (<<g, c>> \in lrt_report) <=>
                (~Failed(g, c[1]) /\ ~Failed(g, c[2]))

C12_OrderedOnce ==
  LET L == Len(config.models)
  IN /\ Len(attempts) <= NumBatchGenes * L
     /\ \A i \in 1..Len(attempts) :
          /\ attempts[i][1] = ((i - 1) \div L) + 1
          /\ attempts[i][2] = config.models[((i - 1) % L) + 1]
     /\ DOMAIN results = 1..current_processed_genes
     /\ current_processed_genes * L <= Len(attempts)
     /\ pc = "done" =>
          (Len(attempts) = NumBatchGenes * L
           /\ current_processed_genes = NumBatchGenes)

C12_Witness ==
  /\ pc = "done"
  /\ Len(attempts) = NumBatchGenes * Len(config.models)
  /\ attempts[1][3]
  /\ ~attempts[2][3]
  /\ DOMAIN results = 1..NumBatchGenes

\* C13: whenever a control file is generated for a model of the neutral
\* catalog it has fix_omega = 1 and omega = 1.0, whatever the initial ratio
\* and whatever the overrides of the model configuration.
C13_NeutralFixed ==
  (ret # <<>> /\ ret[1].generated /\ call.model_name \in NeutralModels) =>
     (ret[1].fix_omega = 1 /\ ret[1].omega = 10)

C13_Witness ==
  /\ ret # <<>>
  /\ call.model_name = "M1a"
  /\ call.custom = [fix_omega |-> <<0>>, omega |-> <<20>>]
  /\ call.omega = <<5>>
  /\ ret[1].generated
  /\ ret[1].fix_omega = 1
  /\ ret[1].omega = 10

\* C14 as stated: the control file written for a Branch-site_null run has
\* fix_omega = 1 and omega = 1.0, whatever the configured initial ratio and
\* whatever the per-model override.
C14_BranchSiteNullFixed ==
  (ret # <<>> /\ call.model_name = "Branch-site_null" /\ call.provided = Absent) =>
     (ret[1].written /\ ret[1].fix_omega = 1 /\ ret[1].omega = 10)

\* C15: expanding an expanded selection gives the same list again.
C15_Idempotent == Len(ret) = 2 => ret[2] = ret[1]

C15_Witness ==
  /\ Len(ret) = 2
  /\ call.selected_models = <<"M8", "M2a">>
  /\ ret[1] = <<"M8", "M2a", "M7", "M1a">>
  /\ ret[2] = ret[1]

\* the null counterparts as the catalog of nested pairs gives them
Counterpart(a) ==
  IF a = "M2a" THEN "M1a"
  ELSE IF a = "M8" THEN "M7"
  ELSE IF a = "Branch" THEN "M0"
  ELSE "Branch-site_null"

Alternatives == {"M2a", "M8", "Branch", "Branch-site"}

\* C16: the expanded list holds the members of S and the null counterpart
\* of every alternative model of S, and nothing else.
C16_ExactContents ==
  Len(ret) >= 1 =>
    SetOf(ret[1]) =
      SetOf(call.selected_models)
      \cup {Counterpart(a) : a \in SetOf(call.selected_models) \cap Alternatives}

C16_Witness ==
  /\ Len(ret) = 1
  /\ call.selected_models = <<"Branch-site", "Branch">>
  /\ SetOf(ret[1]) = {"Branch-site", "Branch", "Branch-site_null", "M0"}

\* the position of the first occurrence of x in seq, 0 when absent
FirstAt(x, seq) ==
  IF \E i \in 1..Len(seq) : seq[i] = x
    THEN CHOOSE i \in 1..Len(seq) : seq[i] = x /\ \A j \in 1..(i - 1) : seq[j] # x
    ELSE 0

\* C17: in the expanded list the models of S come first, in the relative
\* order they have in S, and the added nulls follow.
C17_OrderPreserved ==
  Len(ret) >= 1 =>
    LET S == call.selected_models
        r == ret[1]
    IN \A i, j \in 1..Len(r) :
         i < j =>
           /\ (r[j] \in SetOf(S)) => (r[i] \in SetOf(S))
           /\ (r[i] \in SetOf(S) /\ r[j] \in SetOf(S)) =>
                FirstAt(r[i], S) < FirstAt(r[j], S)

C17_Witness ==
  /\ Len(ret) = 1
  /\ call.selected_models = <<"M2a", "M0", "Branch">>
  /\ ret[1] = <<"M2a", "M0", "Branch", "M1a">>

\* the line mentions the word, in any case and at any position
Mentions(line, word) ==
  \E i \in 1..Len(line) :
    \/ word = "stop" /\ line[i] \in {"stop", "Stop"}
    \/ word = "codon" /\ line[i] \in {"CODON", "codons"}
    \/ word = "press" /\ line[i] = "Press"
    \/ word = "enter" /\ line[i] \in {"ENTER", "enter"}

\* C18: a line is detected as a prompt exactly when it mentions both 'stop'
\* and 'codon', or both 'press' and 'enter', in any case and at any
\* positions; 'codon' alone is not enough.
C18_PromptDetection ==
  ret # <<>> =>
    (ret[1] <=> \/ Mentions(call, "stop") /\ Mentions(call, "codon")
                \/ Mentions(call, "press") /\ Mentions(call, "enter"))

C18_Witness ==
  /\ call = <<"CODON", "x", "Stop">>
  /\ ret = <<TRUE>>

\* the gene has a result with a log-likelihood for both models of the pair
BothLikelihoods(g, c) ==
  /\ c[1] \in DOMAIN results[g]
  /\ c[2] \in DOMAIN results[g]
  /\ results[g][c[1]].lnL # Absent
  /\ results[g][c[2]].lnL # Absent

\* df # 0 and statistic >= 0, with df = |np_alt - np_null| and
\* statistic = 2 * (lnL_alt - lnL_null)
ValidTest(g, c) ==
  /\ results[g][c[1]].np # Absent
  /\ results[g][c[2]].np # Absent
  /\ Abs(results[g][c[2]].np[1] - results[g][c[1]].np[1]) # 0
  /\ 2 * (results[g][c[2]].lnL[1] - results[g][c[1]].lnL[1]) >= 0

\* C19 as stated: once the LRT engine has run, a gene with both results and
\* both log-likelihoods is reported for a pair exactly when df # 0 and
\* statistic >= 0.
C19_ValidIffReported ==
  pc = "done" =>
    \A g \in 1..NumBatchGenes :
      \A i \in 1..Len(Comparisons(config.models)) :
        LET c == Comparisons(config.models)[i]
        IN BothLikelihoods(g, c) =>
             ((<<g, c>> \in lrt_report) <=> ValidTest(g, c))

\* C20 as stated: when LRT is requested, every pair of the catalog whose two
\* models are both among the requested models is compared, the pair
\* (Branch-site_null, Branch-site) included.
C20_EveryCatalogPair ==
  ret # <<>> =>
    \A c \in LrtComparisons :
      (c[1] \in SetOf(call.models) /\ c[2] \in SetOf(call.models))
        => \E i \in 1..Len(ret[1]) : ret[1][i] = c

\* the name a comparison goes by in both modes
Canonical(c) == <<ModelNameMapping(c[1]), ModelNameMapping(c[2])>>

\* C21 as stated: for the same run outputs the regenerated LRT report counts
\* the same genes valid per comparison as the streaming report, with the same
\* degrees of freedom and the same significance classification.
C21_SameLrtArtifacts ==
  ret # <<>> =>
    {<<e[1], e[2], e[3], e[4]>> : e \in ret.LRT_results.entries}
      = {<<e[1], Canonical(e[2]), e[3], e[4]>> : e \in ret.streamed}

\* the folder holds an output file with a log-likelihood for gene g in f
HasLikelihood(f, g) == call[f][g] # NoFile /\ call[f][g].lnL # Absent

\* the nested pairs of the model catalog, under the names a folder can use
NestedFolders ==
  { <<"M0", "M1a">>, <<"M1a", "M2a">>,
    <<"Branch-site_null", "Branch-site">>,
    <<"BranchSite_A_null", "BranchSite_A">> }

\* C22 as stated: for every gene with an output file with lnL in the folders
\* of both models of a nested pair, the regenerated summary has a row for the
\* gene, both lnL cells populated and the lrt cell equal to
\* 2 * (lnL_alt - lnL_null).
C22_SummaryRow ==
  ret # <<>> =>
    \A p \in NestedFolders : \A g \in RegenGenes :
      (p[1] \in DOMAIN call /\ p[2] \in DOMAIN call
         /\ HasLikelihood(p[1], g) /\ HasLikelihood(p[2], g))
      => /\ <<g>> \in ret.analysis_summary.rows
         /\ <<<<g>>, ModelNameMapping(p[1]), call[p[1]][g].lnL[1]>>
              \in ret.analysis_summary.lnL
         /\ <<<<g>>, ModelNameMapping(p[2]), call[p[2]][g].lnL[1]>>
              \in ret.analysis_summary.lnL
         /\ <<<<g>>, Canonical(p),
               2 * (call[p[2]][g].lnL[1] - call[p[1]][g].lnL[1])>>
              \in ret.analysis_summary.lrt

\* the genes that have an output file somewhere in the folder
GenesOnDisk ==
  {<<g>> : g \in {x \in RegenGenes : \E f \in DOMAIN call : call[f][x] # NoFile}}

\* C23 as stated: under the historical and under the current branch-site
\* names alike, the output files of a model are found and the same gene
\* names are inferred in the summary table, the log and the LRT report.
C23_BothNamingVariants ==
  ret # <<>> =>
    /\ ret.analysis_summary.rows = GenesOnDisk
    /\ ret.batch_analysis_log.genes = GenesOnDisk
    /\ ret.LRT_results.genes = GenesOnDisk
    /\ \A f \in DOMAIN call : \A g \in RegenGenes :
         call[f][g] # NoFile =>
           <<<<g>>, ModelNameMapping(f)>> \in ret.batch_analysis_log.found

\* the value of a field of the (gene, model) run is absent
AbsentValue(g, m, field) ==
  m \notin DOMAIN results[g] \/ results[g][m][field] = Absent

\* C24 as stated: the batch completes and the summary table has exactly one
\* row per processed gene, every cell with an absent value being the literal
\* NA.
C24_AbsentCellsAreNA ==
  /\ pc \in {"lrt", "done"} =>
       /\ DOMAIN summary = 1..NumBatchGenes
       /\ \A g \in DOMAIN summary : \A m \in DOMAIN summary[g] :
            /\ AbsentValue(g, m, "lnL") => summary[g][m].lnL = NA
            /\ AbsentValue(g, m, "np") => summary[g][m].np = NA
  /\ pc = "done" => batch_status = "complete"

\* the text holds 'site class' and both ratio labels
SiteClassText(text) ==
  /\ text.site_class = "site class"
  /\ text.background = "background w"
  /\ text.foreground = "foreground w"

\* C25: for a text with 'site class' and both the background and the
\* foreground label the robust extractor returns no scalar, whatever branch
\* table or model parameter the text also holds.
C25_NoScalarForSiteClasses ==
  (ret # <<>> /\ SiteClassText(call)) => ret.robust = Absent

\* a site-class text with a branch table that yields a ratio, and no scalar
C25_Witness ==
  /\ ret # <<>>
  /\ SiteClassText(call)
  /\ ret.global # Absent
  /\ ret.robust = Absent

\* the 5th-column values within the bound of all data rows of the table, up
\* to the line that ends it
InBoundValues(lines) ==
  LET ends == {j \in 1..Len(lines) : lines[j] = TreeLength}
      stop == IF ends = {} THEN Len(lines) + 1
              ELSE CHOOSE j \in ends : \A k \in ends : j <= k
      rows == SelectSeq(SubSeq(lines, 1, stop - 1),
                        LAMBDA l : l.line = "row" /\ InBound(l.omega))
  IN [i \in 1..Len(rows) |-> rows[i].omega]

\* C26 as stated: the branch-table extractor returns the median of exactly
\* the in-bound 5th-column values of the table's data rows, and 'not found'
\* when no row is accepted.
C26_MedianOfInBoundRows ==
  (ret # <<>> /\ call.table # Absent) =>
    ret.global = IF InBoundValues(call.table[1]) = <<>> THEN Absent
                 ELSE <<Median(InBoundValues(call.table[1]))>>

\* C27 as stated: for a 'for branches:' line of N >= 2 values the first
\* value is the one of 'background' and the k-th following value the one of
\* tag '#k', a value of 999 included.
C27_TagsInOrder ==
  (ret # <<>> /\ Len(call) >= 2) =>
    \A k \in 0..(Len(call) - 1) :
      k \in DOMAIN ret[1] /\ ret[1][k] = call[k + 1]

\* C28 as stated: no extraction routine raises; on any failure it returns
\* its absent value.
C28_NeverAnException == ret # <<>> => ret[1] # "raise"

\* C29: a reader is never held up by the other reader.  Whatever the other
\* reader is doing, blocked in event.wait() included, a reader with a prompt
\* line in its pipe can read it, a reader that detected a prompt can apply the
\* continuation policy, and a reader due to write the newline can write it;
\* the only wait of a reader is its own event.wait().
C29_ReadersIndependent ==
  \A s \in Streams :
    /\ (rpc[s] = "read" /\ pipe[s] > 0) => ENABLED ReadLine(s)
    /\ (rpc[s] = "policy") => ENABLED Decide(s)
    /\ (rpc[s] = "towait") => ENABLED EnterWait(s)
    /\ (rpc[s] = "clear") => ENABLED ClearEvent(s)
    /\ (rpc[s] = "write") => ENABLED WriteNewline(s)

\* one reader is blocked in event.wait() while the other one, having read and
\* detected the second prompt of the run, is about to write its newline to
\* the running child
C29_Witness ==
  \E s, t \in Streams :
    /\ rpc[t] = "waiting"
    /\ rpc[s] = "write"
    /\ stop_count = 2
    /\ process = "running"

\* C30: under FairRun, a run that is past its pause gate (the orchestrator is
\* in process.wait or on the timeout path) always comes back to
\* run_batch_analysis, whether or not a continuation signal is ever given.
C30_RunReturns == (pc \in {"wait", "timeout"}) ~> (pc = "returned")

\* a run came back although a prompt was detected under the manual policy,
\* no continuation signal was ever given and no newline was written: the
\* reader that detected the prompt is still blocked
C30_Witness ==
  /\ pc = "returned"
  /\ result = None
  /\ ContinuationPolicy(config.auto_continue_stop_codons, AllSet,
                        config.manual_continue_event) = "wait"
  /\ ~sig_gene
  /\ ~manual_event
  /\ stop_count > 0
  /\ newlines = 0
  /\ held = AllOf(0)
  /\ leaked_waiting > 0

\* read_stream threads started by the batch that have not terminated: the
\* readers of the run in hand and the readers earlier runs left behind
LiveReaders ==
  Cardinality({s \in Streams : rpc[s] \notin {"idle", "done"}})
    + leaked_waiting + leaked_clear

\* C31 as stated: once a run has returned to the orchestrator both of its
\* readers have terminated, so at any time at most two reader threads started
\* by the batch are alive.
C31_ReadersEndWithRun ==
  /\ (pc \in {"returned", "gene_gate", "model_gate", "run_gate", "done"}) =>
       LiveReaders = 0
  /\ LiveReaders <= Cardinality(Streams)

\* C32 as stated: the stop_count of the result a run returns equals the
\* number of prompt lines its two readers detected, whatever the interleaving
\* of their unlocked increments.
C32_CountsEveryPrompt ==
  (pc = "returned" /\ result # None) => result.stop_count = emitted

\* C33 as stated: a per-prompt continuation signal given while both readers
\* are blocked on it releases exactly one of them; the other one stays
\* blocked.
C33_OneSignalOneReader ==
  [][(Waiting(rpc) = 2 /\ ~manual_event /\ manual_event')
       => Waiting(rpc') = 1]_vars

\* rmtree never raised PermissionError during the finally block
NoLockHit == cleanup.attempts <= 1 /\ cleanup.ended # "abandoned"

\* C34 as stated: when the removal of the working directory never hits a
\* lock, the directory does not exist once the run has returned.
C34_GoneUnlessLocked == (pc = "returned" /\ NoLockHit) => ~temp_dir

\* C34 amended: no path returns without attempting the removal of a working
\* directory that exists; the directory is still there after the return only
\* when all 8 attempts hit a lock or when rmtree raised another error (which
\* ends the loop at once); otherwise it does not exist.
C34_RemovalAttempted ==
  [][(pc # "returned" /\ pc' = "returned") =>
       /\ temp_dir => cleanup'.attempts >= 1
       /\ temp_dir' =>
            \/ cleanup' = [attempts |-> MaxCleanupAttempts, ended |-> "abandoned"]
            \/ (cleanup'.attempts >= 1 /\ cleanup'.ended = "error")
       /\ (cleanup'.ended = "removed") => ~temp_dir'
    ]_vars

\* a run that timed out: the removal was attempted once, met no lock, and
\* the directory is gone
C34_Witness ==
  /\ pc = "returned"
  /\ log = "TIMEOUT"
  /\ cleanup = [attempts |-> 1, ended |-> "removed"]
  /\ ~temp_dir

\* C35 as stated: _run_lrt_analysis never raises, and it writes the SUMMARY
\* block of every comparison, also of one that has no valid gene and of one
\* whose result has lnL but no np.
C35_LrtReportCompletes ==
  (pc = "done" /\ config.run_lrt /\ Len(config.models) > 1) =>
    /\ batch_status = "complete"
    /\ LET comps == Comparisons(config.models)
       IN \A i \in 1..Len(comps) : comps[i] \in lrt_done

\* a run whose control file cannot be made: the user's file cannot be read,
\* or no file of the user is used and the model has no profile
ConfigError(c) ==
  \/ c.ctl_file = "unreadable"
  \/ c.ctl_file \in {"none", "missing"} /\ c.model_name \notin DOMAIN ModelConfigs

C38_TreeFilePresent ==
  (process = "running") => ret[1].treefile \in ret[1].files

\* C39: include_neutral makes no difference: what auto_complete_null_models
\* can return for a selection with the flag set is what it can return with
\* the flag cleared, and the list returned under one value of the flag is a
\* list of the other.
C39_FlagWithoutEffect ==
  (Len(ret) >= 1) =>
    /\ AutoCompleteNullModels(call.selected_models, TRUE)
         = AutoCompleteNullModels(call.selected_models, FALSE)
    /\ ret[1] \in AutoCompleteNullModels(call.selected_models,
                                         ~call.include_neutral)

\* both alternatives that have a neutral null are selected and the flag is
\* set: the nulls are in the result, added by the loop over the pairs
C39_Witness ==
  /\ Len(ret) = 1
  /\ call.include_neutral
  /\ call.selected_models = <<"Branch-site", "M2a">>
  /\ ret[1] = <<"Branch-site", "M2a", "M1a", "Branch-site_null">>

====
